---------------------------- MODULE Spec2Model ----------------------------
(***************************************************************************)
(* A model of the record-to-table extraction engine of ose_core.pipelines: *)
(* format_siret, the article / project / company extractors with their     *)
(* accumulation buffers, make_extract_pipeline and DatasetCatalog.         *)
(*                                                                         *)
(* Python values are tagged records:                                       *)
(*   [t |-> "null", nan]               None, or NaN (pd.isna is true)      *)
(*   [t |-> "str",   s |-> chars]      a string, chars a sequence of       *)
(*                                     one-character strings               *)
(*   [t |-> "int",   neg, d]           an int: sign and canonical digits   *)
(*   [t |-> "float", neg, d, frac]     a finite float: sign, digits of the *)
(*                                     integer part, frac = has a non-zero *)
(*                                     fractional part                     *)
(*   [t |-> "inf",   neg]              float +inf / -inf                   *)
(*   [t |-> "dict",  m |-> function]   a mapping, m a function on its keys *)
(*   [t |-> "list",  l |-> sequence]   a list                              *)
(*   [t |-> "bool",  b]                True / False                        *)
(* Integers of 14 and more digits do not fit TLC's integers, so a number   *)
(* is kept as its sequence of decimal digits.                              *)
(***************************************************************************)
EXTENDS Integers, Sequences, FiniteSets, TLC

VARIABLES
    s_in,       \* format_siret: the argument of the call
    s_out,      \* format_siret: its result
    s_out2,     \* format_siret applied to that result
    s_pc,       \* "off" | "idle" | "once" | "twice"
    c_in,       \* DatasetCatalog.transform: the mapping it is given
    c_out,      \* DatasetCatalog.transform: the mapping it returns
    c_out2,     \* DatasetCatalog.transform of that mapping
    c_pc,       \* "off" | "idle" | "once" | "twice"
    a_list,     \* VectorizedArticleExtractor.articles_list
    a_chunk,    \* the batch of the last extract_chunk call
    a_last,     \* articles_expanded at the end of that call
    a_raised,   \* whether that call raised
    a_calls,    \* the number of extract_chunk calls so far
    a_result,   \* what the last get_datasets call returned
    p_list,     \* VectorizedProjectExtractor.signals_list
    p_chunk,    \* the batch of the last extract_chunk call
    p_last,     \* signals_expanded at the end of that call
    p_raised,   \* whether that call raised
    p_calls,    \* the number of extract_chunk calls so far
    p_result,   \* what the last get_datasets call returned
    k_frames,   \* VectorizedCompanyExtractor.dataframes
    k_articles, \* its articles_extractor.articles_list
    k_signals,  \* its signals_extractor.signals_list
    k_chunk,    \* the batch of the last extract_chunk call, as handed in
    k_after,    \* the same batch object when the call is over
    k_out,      \* the outcome of that call: raised, failed, kpi_records and
                \* the rows expanded from the embedded articles and signals
    k_calls,    \* the number of extract_chunk calls so far
    k_since,    \* history: the batches handed in since the last get_datasets
    k_result,   \* what the last get_datasets call returned
    m_paths,    \* make_extract_pipeline: the files of file_paths, in order
    m_out,      \* make_extract_pipeline: what it returned, or raised
    m_pc,       \* "off" | "idle" | "done"
    f_in,       \* FastDatasetExtractor: the file type and the batches given
    f_new,      \* FastDatasetExtractor(file_type): the object built, or raised
    f_out       \* FastDatasetExtractor(file_type).transform(chunks)

siretVars == <<s_in, s_out, s_out2, s_pc>>
catVars == <<c_in, c_out, c_out2, c_pc>>
artVars == <<a_list, a_chunk, a_last, a_raised, a_calls, a_result>>
projVars == <<p_list, p_chunk, p_last, p_raised, p_calls, p_result>>
compVars ==
    <<k_frames, k_articles, k_signals, k_chunk, k_after, k_out, k_calls, k_since, k_result>>
pipeVars == <<m_paths, m_out, m_pc, f_in, f_new, f_out>>

vars == <<siretVars, catVars, artVars, projVars, compVars, pipeVars>>

notSiret == <<catVars, artVars, projVars, compVars, pipeVars>>
notCat == <<siretVars, artVars, projVars, compVars, pipeVars>>
notArt == <<siretVars, catVars, projVars, compVars, pipeVars>>
notProj == <<siretVars, catVars, artVars, compVars, pipeVars>>
notComp == <<siretVars, catVars, artVars, projVars, pipeVars>>
notPipe == <<siretVars, catVars, artVars, projVars, compVars>>

----------------------------------------------------------------------------
(* Bounds of the model *)

\* longest leading digit group of a generated number
MaxSig == 2
\* longest run of one repeated digit that follows it
MaxPad == 13

\* longest generated list of company references or of SIRET entries
MaxList == 2
\* most extract_chunk calls on one extractor
MaxBatches == 2

(* Program constants *)

\* the width of f"{...:014d}"
SiretWidth == 14
\* every integer of at most 15 digits is a double, so int(float(text)) is exact
FloatExactDigits == 15

----------------------------------------------------------------------------
(* Strings *)

Digits == {"0", "1", "2", "3", "4", "5", "6", "7", "8", "9"}

Rep(c, k) == [i \in 1..k |-> c]

RECURSIVE SeqsUpTo(_, _)
SeqsUpTo(S, n) ==
    IF n = 0 THEN {<<>>}
    ELSE LET shorter == SeqsUpTo(S, n - 1)
         IN  shorter \cup {Append(s, c) : s \in {x \in shorter : Len(x) = n - 1}, c \in S}

IsDigits(s) == \A i \in 1..Len(s) : s[i] \in Digits

\* the digits of a number without its leading zeros ("0" for zero)
RECURSIVE Canon(_)
Canon(d) ==
    IF Len(d) <= 1 THEN (IF d = <<>> THEN <<"0">> ELSE d)
    ELSE IF Head(d) = "0" THEN Canon(Tail(d)) ELSE d

\* str.strip() over the blank of the model's alphabet
RECURSIVE LStrip(_)
LStrip(s) == IF s # <<>> /\ Head(s) = " " THEN LStrip(Tail(s)) ELSE s

RECURSIVE RStrip(_)
RStrip(s) ==
    IF s # <<>> /\ s[Len(s)] = " " THEN RStrip(SubSeq(s, 1, Len(s) - 1)) ELSE s

Strip(s) == RStrip(LStrip(s))

NoneV == [t |-> "null", nan |-> FALSE]
NanV == [t |-> "null", nan |-> TRUE]
StrV(s) == [t |-> "str", s |-> s]
IntV(neg, d) == [t |-> "int", neg |-> neg, d |-> d]
FloatV(neg, d, frac) == [t |-> "float", neg |-> neg, d |-> d, frac |-> frac]
InfV(neg) == [t |-> "inf", neg |-> neg]
DictV(m) == [t |-> "dict", m |-> m]
ListV(l) == [t |-> "list", l |-> l]
BoolV(b) == [t |-> "bool", b |-> b]

EmptyStr == <<>>
NanStr == <<"n", "a", "n">>
InfStr == <<"i", "n", "f">>

\* pd.isna of a scalar
IsNa(v) == v.t = "null"

\* bool(v) of Python
Truthy(v) ==
    CASE v.t = "null" -> v.nan
      [] v.t = "bool" -> v.b
      [] v.t = "str" -> v.s # <<>>
      [] v.t = "int" -> v.d # <<"0">>
      [] v.t = "float" -> v.d # <<"0">> \/ v.frac
      [] v.t = "inf" -> TRUE
      [] v.t = "dict" -> DOMAIN v.m # {}
      [] v.t = "list" -> v.l # <<>>

\* str(v) of a mapping or a list: some text that is no number
Repr(v) == IF v.t = "dict" THEN <<"{", "}">> ELSE <<"[", "]">>

\* str(v)
PyStr(v) ==
    CASE v.t = "null" -> IF v.nan THEN NanStr ELSE <<"N", "o", "n", "e">>
      [] v.t = "str" -> v.s
      [] v.t = "bool" -> IF v.b THEN <<"T", "r", "u", "e">> ELSE <<"F", "a", "l", "s", "e">>
      [] v.t = "int" -> (IF v.neg THEN <<"-">> ELSE <<>>) \o v.d
      [] v.t = "float" ->
            (IF v.neg THEN <<"-">> ELSE <<>>) \o v.d
                \o (IF v.frac THEN <<".", "5">> ELSE <<".", "0">>)
      [] v.t = "inf" -> (IF v.neg THEN <<"-">> ELSE <<>>) \o InfStr
      [] OTHER -> Repr(v)

\* mapping.get(key, default) on the function m
Get(m, key, default) == IF key \in DOMAIN m THEN m[key] ELSE default

----------------------------------------------------------------------------
(* format_siret *)

\* f"{n:014d}" of the integer with sign neg and canonical digits d
Format014_NoPad(neg, d) == IF neg THEN <<"-">> \o d ELSE d

Format014(neg, d) ==
    LET sign == IF neg THEN <<"-">> ELSE <<>>
        fill == SiretWidth - Len(sign) - Len(d)
    IN  sign \o Rep("0", IF fill > 0 THEN fill ELSE 0) \o d

\* int(x) of a finite float: truncation toward zero (int(-0.5) is 0)
IntOf(neg, d) == [neg |-> neg /\ Canon(d) # <<"0">>, d |-> Canon(d)]

\* float(text): [sign] digits [. digits] or [sign] . digits; anything else
\* (and "nan", "inf", on which int() raises) is reported as not ok
ParseFloat(s) ==
    LET signed == s # <<>> /\ Head(s) \in {"-", "+"}
        body == IF signed THEN Tail(s) ELSE s
        dots == {i \in 1..Len(body) : body[i] = "."}
        dot == IF dots = {} THEN Len(body) + 1 ELSE CHOOSE i \in dots : TRUE
        ip == SubSeq(body, 1, dot - 1)
        fp == SubSeq(body, dot + 1, Len(body))
        ok == /\ Cardinality(dots) <= 1
              /\ IsDigits(ip) /\ IsDigits(fp)
              /\ Len(ip) + Len(fp) > 0
    IN  [ok |-> ok, neg |-> signed /\ Head(s) = "-", d |-> ip]

\* The truth value of pd.isna(v) in a condition. Of a list pd.isna is an
\* array: of one value it is that value's answer, of several values its truth
\* value is ambiguous (ValueError), of none it is "empty".
RECURSIVE IsNaTruth(_)
IsNaTruth(v) ==
    IF v.t = "list"
    THEN IF Len(v.l) = 1 THEN IsNaTruth(v.l[1])
         ELSE IF Len(v.l) = 0 THEN "empty" ELSE "raise"
    ELSE IF IsNa(v) THEN "yes" ELSE "no"

Returned(s) == [raised |-> FALSE, s |-> s]
Raised == [raised |-> TRUE, s |-> <<>>]

\* f"{int(x):014d}" of the number with sign neg and digits d
format_number(n) == Returned(Format014(n.neg, n.d))

\* lines 39-44 on the stripped text val_str, f the outcome of float(val_str)
format_text(val_str, f) ==
    IF val_str # EmptyStr /\ val_str # NanStr
    THEN IF f.ok THEN format_number(IntOf(f.neg, f.d)) ELSE Returned(val_str)
    ELSE Returned(EmptyStr)

\* lines 35-46, na the truth value of pd.isna(siret)
format_value(siret, na) ==
    CASE na = "raise" -> Raised
      [] na = "yes" -> Returned(EmptyStr)
      [] siret.t = "str" ->
            IF siret.s = EmptyStr \/ siret.s = NanStr THEN Returned(EmptyStr)
            ELSE format_text(Strip(siret.s), ParseFloat(Strip(siret.s)))
      [] siret.t = "int" -> format_number(siret)
      [] siret.t = "float" -> format_number(IntOf(siret.neg, siret.d))
      \* int(inf) raises OverflowError: line 46 returns str(siret)
      [] siret.t = "inf" -> Returned(PyStr(siret))
      \* str(siret) of a mapping or a list is no number: line 43
      [] OTHER -> Returned(Repr(siret))

format_siret(siret) == format_value(siret, IsNaTruth(siret))

----------------------------------------------------------------------------
(* Tables *)

\* A table (DataFrame) is [cols, index, rows]: the column names in order, the
\* row labels in order, and the rows in order, each a function on the columns.
Table(cols, index, rows) == [cols |-> cols, index |-> index, rows |-> rows]

\* pd.DataFrame()
EmptyTable == Table(<<>>, <<>>, <<>>)

\* df.empty: an axis of length 0
IsEmpty(df) == Len(df.index) = 0 \/ Len(df.cols) = 0

Range(s) == {s[i] : i \in 1..Len(s)}

\* The spelling of every column name of the model. sorted() compares names
\* character by character, by code point.
Spell ==
    ("company_name" :> <<"c", "o", "m", "p", "a", "n", "y", "_", "n", "a", "m", "e">>)
    @@ ("siren" :> <<"s", "i", "r", "e", "n">>)
    @@ ("siret" :> <<"s", "i", "r", "e", "t">>)
    @@ ("year" :> <<"y", "e", "a", "r">>)
    @@ ("ca" :> <<"c", "a">>)
    @@ ("caBilan" :> <<"c", "a", "B", "i", "l", "a", "n">>)
    @@ ("title" :> <<"t", "i", "t", "l", "e">>)
    @@ ("all_companies_count" :> <<"a", "l", "l", "_", "c", "o", "m", "p", "a", "n", "i", "e", "s", "_", "c", "o", "u", "n", "t">>)
    @@ ("companies_count" :> <<"c", "o", "m", "p", "a", "n", "i", "e", "s", "_", "c", "o", "u", "n", "t">>)
    @@ ("index" :> <<"i", "n", "d", "e", "x">>)
    @@ ("level_0" :> <<"l", "e", "v", "e", "l", "_", "0">>)
    @@ ("publishedAt" :> <<"p", "u", "b", "l", "i", "s", "h", "e", "d", "A", "t">>)
    @@ ("isMain" :> <<"i", "s", "M", "a", "i", "n">>)
    @@ ("sirets_count" :> <<"s", "i", "r", "e", "t", "s", "_", "c", "o", "u", "n", "t">>)
    @@ ("departement" :> <<"d", "e", "p", "a", "r", "t", "e", "m", "e", "n", "t">>)
    @@ ("departement_id" :> <<"d", "e", "p", "a", "r", "t", "e", "m", "e", "n", "t", "_", "i", "d">>)
    @@ ("raison_sociale" :> <<"r", "a", "i", "s", "o", "n", "_", "s", "o", "c", "i", "a", "l", "e">>)
    @@ ("dateConsolide" :> <<"d", "a", "t", "e", "C", "o", "n", "s", "o", "l", "i", "d", "e">>)
    @@ ("effectif" :> <<"e", "f", "f", "e", "c", "t", "i", "f">>)
    @@ ("nbMarques" :> <<"n", "b", "M", "a", "r", "q", "u", "e", "s">>)
    @@ ("hasGroupOwner" :> <<"h", "a", "s", "G", "r", "o", "u", "p", "O", "w", "n", "e", "r">>)
    @@ ("startup" :> <<"s", "t", "a", "r", "t", "u", "p">>)
    @@ ("radiee" :> <<"r", "a", "d", "i", "e", "e">>)
    @@ ("nbContacts" :> <<"n", "b", "C", "o", "n", "t", "a", "c", "t", "s">>)
    @@ ("webSite" :> <<"w", "e", "b", "S", "i", "t", "e">>)
    @@ ("2021" :> <<"2", "0", "2", "1">>)
    @@ ("2022" :> <<"2", "0", "2", "2">>)
    @@ ("2023" :> <<"2", "0", "2", "3">>)
    @@ ("kpi" :> <<"k", "p", "i">>)

\* the characters of the column names, in code point order
CodeOrder ==
    <<"0", "1", "2", "3", "A", "B", "C", "G", "M", "O", "S", "_", "a", "b",
      "c", "d", "e", "f", "h", "i", "k", "l", "m", "n", "o", "p", "q", "r", "s",
      "t", "u", "v", "w", "x", "y">>

Ord(c) == CHOOSE i \in 1..Len(CodeOrder) : CodeOrder[i] = c

\* a < b for two strings, as Python compares them
RECURSIVE LexLess(_, _)
LexLess(a, b) ==
    IF b = <<>> THEN FALSE
    ELSE IF a = <<>> THEN TRUE
    ELSE IF Head(a) = Head(b) THEN LexLess(Tail(a), Tail(b))
    ELSE Ord(Head(a)) < Ord(Head(b))

ColLess(a, b) == LexLess(Spell[a], Spell[b])

\* sorted(names): insertion of each name at its place, left to right
RECURSIVE Insert(_, _)
Insert(c, s) ==
    IF s = <<>> THEN <<c>>
    ELSE IF ColLess(c, Head(s)) THEN <<c>> \o s
    ELSE <<Head(s)>> \o Insert(c, Tail(s))

RECURSIVE Sorted(_)
Sorted(s) == IF s = <<>> THEN <<>> ELSE Insert(s[Len(s)], Sorted(SubSeq(s, 1, Len(s) - 1)))

----------------------------------------------------------------------------
(* DatasetCatalog.transform *)

index_cols == <<"company_name", "siren", "siret">>

IsIndexCol(c) == c \in Range(index_cols)
IsOtherCol(c) == ~IsIndexCol(c)

UnsortedOthers(s) == s

\* sorted(other_cols)
sorted_others(other_cols) == Sorted(other_cols)

\* [c for c in index_cols if c in df.columns] + sorted(other_cols)
sorted_cols(df) ==
    LET InDf(c) == c \in Range(df.cols)
    IN  SelectSeq(index_cols, InDf) \o sorted_others(SelectSeq(df.cols, IsOtherCol))

\* df[cols]: the columns named, in that order; rows and labels as they are
select_columns(df, cols) ==
    Table(cols, df.index, [i \in 1..Len(df.rows) |-> [c \in Range(cols) |-> df.rows[i][c]]])

\* df.reset_index(): the old labels are kept as a new first column
reset_index_keep(df) ==
    LET new == IF "index" \in Range(df.cols) THEN "level_0" ELSE "index"
    IN  Table(<<new>> \o df.cols,
              [i \in 1..Len(df.index) |-> i - 1],
              [i \in 1..Len(df.rows) |->
                  [c \in Range(df.cols) \cup {new} |->
                      IF c = new THEN df.index[i] ELSE df.rows[i][c]]])

\* the places of the rows in ascending order of their labels
RECURSIVE OrderOf(_, _)
OrderOf(index, left) ==
    IF left = {} THEN <<>>
    ELSE LET i == CHOOSE j \in left : \A k \in left : index[j] <= index[k]
         IN  <<i>> \o OrderOf(index, left \ {i})

\* df.sort_index().reset_index(drop=True): the rows in the order of their labels
reset_index_sorted(df) ==
    LET ord == OrderOf(df.index, 1..Len(df.index))
    IN  Table(df.cols,
              [i \in 1..Len(df.index) |-> i - 1],
              [i \in 1..Len(df.rows) |-> df.rows[ord[i]]])

\* df.reset_index(drop=True): labels 0..n-1, rows as they are
reset_index(df) == Table(df.cols, [i \in 1..Len(df.index) |-> i - 1], df.rows)

CatalogTransform(datasets) ==
    [name \in DOMAIN datasets |->
        IF ~IsEmpty(datasets[name])
        THEN reset_index(select_columns(datasets[name], sorted_cols(datasets[name])))
        ELSE datasets[name]]

----------------------------------------------------------------------------
(* pandas: building and concatenating tables *)

\* the elements of s followed by those of r that s lacks, in order
RECURSIVE OrderedUnion(_, _)
OrderedUnion(s, r) ==
    IF r = <<>> THEN s
    ELSE OrderedUnion(IF Head(r) \in Range(s) THEN s ELSE Append(s, Head(r)), Tail(r))

RECURSIVE Flatten(_)
Flatten(ss) == IF ss = <<>> THEN <<>> ELSE Head(ss) \o Flatten(Tail(ss))

\* a row on the columns cols, NaN where it has no value
Fill(row, cols) == [c \in Range(cols) |-> IF c \in DOMAIN row THEN row[c] ELSE NanV]

\* the table of the rows, each filled to the columns cols, labels 0..n-1
FilledTable(rows, cols) ==
    Table(cols, [i \in 1..Len(rows) |-> i - 1],
          [i \in 1..Len(rows) |-> Fill(rows[i], cols)])

\* the keys of the rows in order of first appearance, each row listing its
\* keys in the order of key_order
RECURSIVE KeysInOrder(_, _, _)
KeysInOrder(acc, rows, key_order) ==
    IF rows = <<>> THEN acc
    ELSE KeysInOrder(OrderedUnion(acc, SelectSeq(key_order, LAMBDA c : c \in DOMAIN Head(rows))),
                     Tail(rows), key_order)

\* pd.DataFrame(rows) of a list of dicts: the columns in order of first
\* appearance, labels 0..n-1
DataFrameOf(rows, key_order) == FilledTable(rows, KeysInOrder(<<>>, rows, key_order))

\* the columns of the tables, those of the first table first
RECURSIVE ColsOf(_, _)
ColsOf(acc, dfs) ==
    IF dfs = <<>> THEN acc ELSE ColsOf(OrderedUnion(acc, Head(dfs).cols), Tail(dfs))

\* a concatenation that puts the rows of the last table first
Concat_LastFirst(dfs) ==
    FilledTable(Flatten([k \in 1..Len(dfs) |-> dfs[Len(dfs) + 1 - k].rows]), ColsOf(<<>>, dfs))

\* pd.concat(dfs, ignore_index=True)
Concat(dfs) ==
    FilledTable(Flatten([k \in 1..Len(dfs) |-> dfs[k].rows]), ColsOf(<<>>, dfs))

----------------------------------------------------------------------------
(* VectorizedArticleExtractor *)

\* row.get(field): None when the batch has no such column
RowGet(row, field) == Get(row, field, NoneV)

\* safe_get_list of extract_chunk (articles and projects): the list, or the
\* default None, modelled as the empty sequence (only its truth value is used)
safe_get_list(value) ==
    IF value.t = "list" /\ IsNaTruth(value) # "yes" THEN value.l ELSE <<>>

\* safe_get_list of _create_article_row, default []: a list of several values
\* makes pd.isna raise ValueError, which returns the default
row_get_list(value) ==
    IF value.t = "list" /\ IsNaTruth(value) = "no" THEN value.l ELSE <<>>

\* safe_get_scalar of _create_article_row, default ""
safe_get_scalar(value) ==
    IF IsNaTruth(value) \in {"yes", "raise"} THEN EmptyStr
    ELSE IF Truthy(value) THEN PyStr(value) ELSE EmptyStr

EmptyKey == [company_name |-> StrV(EmptyStr), siren |-> StrV(EmptyStr), siret |-> StrV(EmptyStr)]

\* the key of a referenced mapping, f the outcome of format_siret
article_key(m, f) ==
    [raised |-> f.raised,
     key |-> [company_name |-> Get(m, "label", StrV(EmptyStr)),
              siren |-> StrV(PyStr(Get(m, "siren", StrV(EmptyStr)))),
              siret |-> StrV(f.s)]]

\* base_index of one referenced company, lines 114-121; raised when
\* format_siret raises
article_base_index(company) ==
    IF company.t = "dict"
    THEN article_key(company.m, format_siret(Get(company.m, "siret", StrV(EmptyStr))))
    ELSE [raised |-> FALSE, key |-> EmptyKey]

\* _create_article_row: the key, the title and the two counts. The other
\* columns (publishedAt, author, signalsStatus, signalsType, country, sectors,
\* cities, sources, departments) are read from fields of their own in the same
\* way and are left out.
create_article_row(row, base_index) ==
    [company_name |-> base_index.company_name,
     siren |-> base_index.siren,
     siret |-> base_index.siret,
     title |-> StrV(safe_get_scalar(RowGet(row, "title"))),
     all_companies_count |-> Len(row_get_list(RowGet(row, "all_companies"))),
     companies_count |-> Len(row_get_list(RowGet(row, "companies")))]

article_key_order ==
    <<"company_name", "siren", "siret", "title", "all_companies_count", "companies_count">>

\* the first of two lists that is not empty, lines 102-107
FirstNonEmpty(a, b) == IF a # <<>> THEN a ELSE b

\* the list of companies an article row is expanded over
article_companies(row) ==
    FirstNonEmpty(safe_get_list(RowGet(row, "companies")),
                  safe_get_list(RowGet(row, "all_companies")))

\* one row per key, raised when a key could not be built
article_rows(row, keys) ==
    [raised |-> \E i \in 1..Len(keys) : keys[i].raised,
     rows |-> [i \in 1..Len(keys) |-> create_article_row(row, keys[i].key)]]

\* the rows an article row is expanded into over companies, lines 109-122
article_expand_over(row, companies) ==
    IF companies = <<>>
    THEN [raised |-> FALSE, rows |-> <<create_article_row(row, EmptyKey)>>]
    ELSE article_rows(row, [i \in 1..Len(companies) |-> article_base_index(companies[i])])

article_expand(row) == article_expand_over(row, article_companies(row))

\* lines 124-125 with the expansions exp of the rows; an exception leaves the
\* buffer as it was
append_expanded(list, exp, key_order) ==
    IF \E i \in 1..Len(exp) : exp[i].raised
    THEN [raised |-> TRUE, list |-> list, last |-> <<>>]
    ELSE IF \E i \in 1..Len(exp) : exp[i].rows # <<>>
    THEN [raised |-> FALSE,
          list |-> Append(list, DataFrameOf(Flatten([i \in 1..Len(exp) |-> exp[i].rows]),
                                            key_order)),
          last |-> Flatten([i \in 1..Len(exp) |-> exp[i].rows])]
    ELSE [raised |-> FALSE, list |-> list, last |-> <<>>]

\* VectorizedArticleExtractor.extract_chunk on the buffer articles_list:
\* the new buffer and the rows expanded (articles_expanded), or raised
article_extract_chunk(articles_list, chunk) ==
    append_expanded(articles_list, [i \in 1..Len(chunk) |-> article_expand(chunk[i])],
                    article_key_order)

\* VectorizedArticleExtractor.get_datasets
article_get_datasets(articles_list) ==
    [name \in {"09_articles"} |->
        IF articles_list # <<>> THEN Concat(articles_list) ELSE EmptyTable]

----------------------------------------------------------------------------
(* VectorizedProjectExtractor *)

\* is_not_na of _create_signal_row, lines 307-311
is_not_na(value) == IsNaTruth(value) \in {"no", "empty"}

\* safe_get_list of _create_signal_row, default [], lines 313-323
signal_get_list(value) ==
    IF value.t = "list" /\ is_not_na(value) THEN value.l ELSE <<>>

\* safe_get_scalar of _create_signal_row, lines 374-380
signal_get_scalar(value) ==
    IF is_not_na(value) /\ Truthy(value) THEN PyStr(value) ELSE EmptyStr

\* _create_signal_row: the key, publishedAt, isMain and the two counts. The
\* other columns (continent, country, departement, type, type_id, createdAt,
\* statut, city_label, city_zip_code, natureOp) are read from fields of their
\* own and are left out.
create_signal_row(row, base_index) ==
    [company_name |-> base_index.company_name,
     siren |-> base_index.siren,
     siret |-> base_index.siret,
     publishedAt |-> StrV(signal_get_scalar(RowGet(row, "publishedAt"))),
     isMain |-> TRUE,
     companies_count |-> Len(signal_get_list(RowGet(row, "companies"))),
     sirets_count |-> Len(signal_get_list(RowGet(row, "sirets")))]

signal_key_order ==
    <<"company_name", "siren", "siret", "publishedAt", "isMain", "companies_count",
      "sirets_count">>

\* the company references of a signal row, lines 253-257 and 261-262
signal_companies(row) ==
    FirstNonEmpty(safe_get_list(RowGet(row, "companies")),
        FirstNonEmpty(safe_get_list(RowGet(row, "companiesmain")),
                      safe_get_list(RowGet(row, "allCompanies"))))

\* the SIRET entries of a signal row, lines 259 and 263-264
signal_sirets(row) == safe_get_list(RowGet(row, "sirets"))

\* str(x) if x else ""
StrIfTruthy(x) == IF Truthy(x) THEN PyStr(x) ELSE EmptyStr

\* base_index of a company reference, lines 272-284
signal_company_key(company) ==
    [raised |-> FALSE,
     key |-> [company_name |-> StrV(EmptyStr),
              siren |-> StrV(StrIfTruthy(IF company.t = "dict"
                                         THEN Get(company.m, "id", StrV(EmptyStr))
                                         ELSE company)),
              siret |-> StrV(EmptyStr)]]

\* siret[:9] if len(siret) >= 9 else ""
SirenOfSiret(siret) == IF Len(siret) >= 9 THEN SubSeq(siret, 1, 9) ELSE EmptyStr

\* base_index of a SIRET entry, f the outcome of format_siret, lines 294-298
signal_siret_key_of(f) ==
    [raised |-> f.raised,
     key |-> [company_name |-> StrV(EmptyStr),
              siren |-> StrV(SirenOfSiret(f.s)),
              siret |-> StrV(f.s)]]

\* lines 289-298
signal_siret_key(siret_info) ==
    signal_siret_key_of(
        format_siret(IF siret_info.t = "dict"
                     THEN Get(siret_info.m, "siret", StrV(EmptyStr))
                     ELSE siret_info))

\* the rows of the keys that precede the first key that could not be built
\* are in signals_expanded when the exception leaves extract_chunk; the list
\* is local, so they are lost with it
signal_rows(row, keys) ==
    [raised |-> \E i \in 1..Len(keys) : keys[i].raised,
     rows |-> [i \in 1..Len(keys) |-> create_signal_row(row, keys[i].key)]]

\* the rows a signal row is expanded into, lines 266-299
signal_expand_over(row, companies, sirets) ==
    IF companies = <<>> /\ sirets = <<>>
    THEN [raised |-> FALSE, rows |-> <<create_signal_row(row, EmptyKey)>>]
    ELSE signal_rows(row,
            [i \in 1..Len(companies) |-> signal_company_key(companies[i])]
            \o [i \in 1..Len(sirets) |-> signal_siret_key(sirets[i])])

signal_expand(row) == signal_expand_over(row, signal_companies(row), signal_sirets(row))

\* VectorizedProjectExtractor.extract_chunk on the buffer signals_list
project_extract_chunk(signals_list, chunk) ==
    append_expanded(signals_list, [i \in 1..Len(chunk) |-> signal_expand(chunk[i])],
                    signal_key_order)

\* VectorizedProjectExtractor.get_datasets
project_get_datasets(signals_list) ==
    [name \in {"08_signals"} |->
        IF signals_list # <<>> THEN Concat(signals_list) ELSE EmptyTable]

----------------------------------------------------------------------------
(* pandas: Series and frames built column by column *)

\* a Series: the labels and the values
Series(index, vals) == [index |-> index, vals |-> vals]

RangeIndex(n) == [i \in 1..n |-> i - 1]

\* df[col]
Column(df, col) == Series(df.index, [i \in 1..Len(df.rows) |-> df.rows[i][col]])

\* pd.Series([default] * len(df)): labels 0..n-1
DefaultSeries(df, default) ==
    Series(RangeIndex(Len(df.index)), [i \in 1..Len(df.index) |-> default])

Apply(s, F(_)) == Series(s.index, [i \in 1..Len(s.vals) |-> F(s.vals[i])])

fillna(s, d) == Apply(s, LAMBDA v : IF IsNa(v) THEN d ELSE v)

\* astype(str): str() of every value, of a missing one too
astype_str(s) == Apply(s, LAMBDA v : StrV(PyStr(v)))

\* astype(bool): bool() of every value; NaN is true
astype_bool(s) == Apply(s, LAMBDA v : BoolV(Truthy(v)))

\* series.isna().all()
AllNa(s) == \A i \in 1..Len(s.vals) : IsNa(s.vals[i])

\* the value a series has at a label, NaN where it has none
At(s, label) ==
    IF \E i \in 1..Len(s.index) : s.index[i] = label
    THEN s.vals[CHOOSE i \in 1..Len(s.index) : s.index[i] = label]
    ELSE NanV

RECURSIVE UnionOf(_, _)
UnionOf(acc, indexes) ==
    IF indexes = <<>> THEN acc
    ELSE UnionOf(OrderedUnion(acc, Head(indexes)), Tail(indexes))

\* the index of pd.DataFrame({...}) of series: theirs when they all agree,
\* otherwise the sorted union of their labels
union_indexes(indexes) ==
    IF \A i \in 1..Len(indexes) : indexes[i] = indexes[1] THEN indexes[1]
    ELSE SortSeq(UnionOf(<<>>, indexes), LAMBDA a, b : a < b)

FrameOn(cols, ser, index) ==
    Table(cols, index,
          [k \in 1..Len(index) |-> [c \in Range(cols) |-> At(ser[c], index[k])]])

\* pd.DataFrame({c: ser[c]}): values are aligned on the labels
FrameOfSeries(cols, ser) ==
    FrameOn(cols, ser, union_indexes([i \in 1..Len(cols) |-> ser[cols[i]].index]))

\* the row a table has at a label, NaN in every column where it has none
RowAt(df, label) ==
    IF \E i \in 1..Len(df.index) : df.index[i] = label
    THEN df.rows[CHOOSE i \in 1..Len(df.index) : df.index[i] = label]
    ELSE [c \in Range(df.cols) |-> NanV]

ConcatColumnsOn(a, b, index) ==
    Table(a.cols \o b.cols, index,
          [k \in 1..Len(index) |-> RowAt(a, index[k]) @@ RowAt(b, index[k])])

\* pd.concat([a, b], axis=1): an outer join on the labels, those of a first
ConcatColumns(a, b) == ConcatColumnsOn(a, b, OrderedUnion(a.index, b.index))

----------------------------------------------------------------------------
(* VectorizedCompanyExtractor *)

\* safe_get of extract_chunk, lines 429-440
safe_get(df, col, default) ==
    IF col \in Range(df.cols) THEN Column(df, col) ELSE DefaultSeries(df, default)

\* company_name_series.empty or company_name_series.isna().all()
NoName(s) == Len(s.vals) = 0 \/ AllNa(s)

\* lines 448-452: the first alternative column that holds a name; a column
\* that holds none still replaces the series
RECURSIVE alt_name_series(_, _, _)
alt_name_series(df, s, alts) ==
    IF alts = <<>> THEN s
    ELSE IF Head(alts) \in Range(df.cols)
    THEN IF ~NoName(Column(df, Head(alts))) THEN Column(df, Head(alts))
         ELSE alt_name_series(df, Column(df, Head(alts)), Tail(alts))
    ELSE alt_name_series(df, s, Tail(alts))

alt_cols == <<"label", "name", "raison_sociale">>

\* lines 445-452
company_name_series(df) ==
    IF NoName(safe_get(df, "socialName", StrV(EmptyStr)))
    THEN alt_name_series(df, safe_get(df, "socialName", StrV(EmptyStr)), alt_cols)
    ELSE safe_get(df, "socialName", StrV(EmptyStr))

\* safe_get(chunk_df, "siret", "").apply(format_siret): the outcomes
siret_outcomes(df) == Apply(safe_get(df, "siret", StrV(EmptyStr)), format_siret)

\* whether building base_index raises
base_index_raises(df) ==
    \E i \in 1..Len(df.index) : siret_outcomes(df).vals[i].raised

\* base_index, lines 454-460
base_index(df) ==
    FrameOfSeries(index_cols,
        [company_name |-> fillna(company_name_series(df), StrV(EmptyStr)),
         siren |-> fillna(astype_str(safe_get(df, "siren", StrV(EmptyStr))), StrV(EmptyStr)),
         siret |-> Apply(siret_outcomes(df), LAMBDA f : StrV(f.s))])

Zero == IntV(FALSE, <<"0">>)

Col(name, src, kind, key) == [name |-> name, src |-> src, kind |-> kind, key |-> key]

\* The columns of the tables 01-06: the name, the field it is read from and
\* how: "text" is safe_get(.., "").fillna(""), "bool" is
\* safe_get(.., False).astype(bool), "count" is safe_get(.., 0).fillna(0) and
\* "field" is safe_get(.., {}).apply(x.get(key, "") if isinstance(x, dict)
\* else ""). Of each table the columns listed here are modelled; the others
\* are built in one of these four ways from fields of their own, except
\* resume_activite, the concatenation of two text columns.
table_columns ==
    [t \in {"01_company_basic_info", "02_financial_data", "03_workforce_data",
            "04_company_structure", "05_classification_flags", "06_contact_metrics"} |->
        CASE t = "01_company_basic_info" ->
                <<Col("departement", "department", "field", "label"),
                  Col("departement_id", "department", "field", "id"),
                  Col("raison_sociale", "socialName", "text", "")>>
          [] t = "02_financial_data" ->
                <<Col("caBilan", "caBilan", "text", ""),
                  Col("dateConsolide", "dateCloture", "text", "")>>
          [] t = "03_workforce_data" -> <<Col("effectif", "effectif", "text", "")>>
          [] t = "04_company_structure" ->
                <<Col("nbMarques", "nbMarques", "text", ""),
                  Col("hasGroupOwner", "hasGroupOwner", "bool", "")>>
          [] t = "05_classification_flags" ->
                <<Col("startup", "startup", "bool", ""),
                  Col("radiee", "radiate", "bool", "")>>
          [] t = "06_contact_metrics" ->
                <<Col("nbContacts", "nbContacts", "count", ""),
                  Col("webSite", "webSite", "text", "")>>]

\* x.get(key, "") if isinstance(x, dict) else ""
FieldOf(x, key) == IF x.t = "dict" THEN Get(x.m, key, StrV(EmptyStr)) ELSE StrV(EmptyStr)

\* the series of one column
column_series(df, c) ==
    CASE c.kind = "text" -> fillna(safe_get(df, c.src, StrV(EmptyStr)), StrV(EmptyStr))
      [] c.kind = "bool" -> astype_bool(safe_get(df, c.src, BoolV(FALSE)))
      [] c.kind = "count" -> fillna(safe_get(df, c.src, Zero), Zero)
      [] c.kind = "field" ->
            Apply(safe_get(df, c.src, DictV(<<>>)), LAMBDA x : FieldOf(x, c.key))

\* pd.DataFrame({...}) of the columns of one table
columns_frame(df, cs) ==
    FrameOfSeries([i \in 1..Len(cs) |-> cs[i].name],
                  [n \in {cs[i].name : i \in 1..Len(cs)} |->
                      column_series(df, CHOOSE c \in Range(cs) : c.name = n)])

\* one of the tables 01-06 of a batch, lines 475-611
company_table(df, name) ==
    ConcatColumns(base_index(df), columns_frame(df, table_columns[name]))

\* str(v) if pd.notna(v) else ""
StrIfNotNa(v) == IF IsNa(v) THEN EmptyStr ELSE PyStr(v)

\* format_siret(v) if pd.notna(v) else ""; base_index was built, so
\* format_siret does not raise
SiretIfNotNa(v) == IF IsNa(v) THEN EmptyStr ELSE format_siret(v).s

\* base_kpi, lines 617-621
base_kpi(row) ==
    [company_name |-> StrV(StrIfNotNa(RowGet(row, "socialName"))),
     siren |-> StrV(StrIfNotNa(RowGet(row, "siren"))),
     siret |-> StrV(SiretIfNotNa(RowGet(row, "siret")))]

\* The keys of the mappings of the batches and of the rows built from them, in
\* the order in which a mapping lists them.
kpi_key_order ==
    <<"company_name", "siren", "siret", "year", "2021", "2022", "2023", "ca", "caBilan">>

\* lines 624-626: kpi_row.update(year_kpis) lets the metrics replace a key
kpi_row(base, year, year_kpis) == year_kpis.m @@ ("year" :> StrV(Spell[year])) @@ base

\* the years of a mapping that hold a mapping, line 623
kpi_years(kpi_data) ==
    SelectSeq(kpi_key_order, LAMBDA y : y \in DOMAIN kpi_data.m /\ kpi_data.m[y].t = "dict")

kpi_rows_first(base, kpi_data, years) ==
    [i \in 1..(IF years = <<>> THEN 0 ELSE 1) |-> kpi_row(base, years[i], kpi_data.m[years[i]])]

kpi_rows(base, kpi_data, years) ==
    [i \in 1..Len(years) |-> kpi_row(base, years[i], kpi_data.m[years[i]])]

\* extract_kpi_from_record, lines 615-627
extract_kpi_from_record(row, kpi_data) ==
    IF kpi_data.t = "dict" THEN kpi_rows(base_kpi(row), kpi_data, kpi_years(kpi_data))
    ELSE <<>>

\* json.loads over the texts of the batches: objects, strings without escapes,
\* integers without sign, null; blanks between the tokens. rest is the text
\* that follows the value.
JsonFail == [ok |-> FALSE, v |-> NoneV, rest |-> <<>>]
JsonOk(v, rest) == [ok |-> TRUE, v |-> v, rest |-> rest]

\* the name the characters of a key spell
NameOf(chars) == CHOOSE n \in DOMAIN Spell : Spell[n] = chars

\* the place of the first quote of s from i on, 0 when there is none
RECURSIVE QuoteAt(_, _)
QuoteAt(s, i) ==
    IF i > Len(s) THEN 0 ELSE IF s[i] = "\"" THEN i ELSE QuoteAt(s, i + 1)

RECURSIVE DigitsLen(_)
DigitsLen(s) == IF s # <<>> /\ Head(s) \in Digits THEN 1 + DigitsLen(Tail(s)) ELSE 0

\* the string that ends at the quote at n
json_string(s, n) ==
    IF n = 0 THEN JsonFail
    ELSE JsonOk(StrV(SubSeq(s, 1, n - 1)), SubSeq(s, n + 1, Len(s)))

\* the integer of the n leading digits
json_number(s, n) ==
    IF n > 1 /\ Head(s) = "0" THEN JsonFail
    ELSE JsonOk(IntV(FALSE, SubSeq(s, 1, n)), SubSeq(s, n + 1, Len(s)))

RECURSIVE json_value(_)
RECURSIVE json_members(_, _)

\* after a member: the end of the object, or a comma and the next member
json_more(m, s) ==
    IF s = <<>> THEN JsonFail
    ELSE IF Head(s) = "}" THEN JsonOk(DictV(m), Tail(s))
    ELSE IF Head(s) = "," THEN json_members(m, LStrip(Tail(s)))
    ELSE JsonFail

\* a later member of the same key replaces the earlier one
json_after_value(m, key, r) ==
    IF r.ok THEN json_more((NameOf(key) :> r.v) @@ m, LStrip(r.rest)) ELSE JsonFail

json_after_colon(m, key, s) ==
    IF s # <<>> /\ Head(s) = ":" THEN json_after_value(m, key, json_value(LStrip(Tail(s))))
    ELSE JsonFail

json_after_key(m, k) ==
    IF k.ok THEN json_after_colon(m, k.v.s, LStrip(k.rest)) ELSE JsonFail

json_members(m, s) ==
    IF s # <<>> /\ Head(s) = "\"" THEN json_after_key(m, json_string(Tail(s), QuoteAt(Tail(s), 1)))
    ELSE JsonFail

json_object(s) ==
    IF s # <<>> /\ Head(s) = "}" THEN JsonOk(DictV(<<>>), Tail(s)) ELSE json_members(<<>>, s)

json_value(s) ==
    IF s = <<>> THEN JsonFail
    ELSE IF Head(s) = "{" THEN json_object(LStrip(Tail(s)))
    ELSE IF Head(s) = "\"" THEN json_string(Tail(s), QuoteAt(Tail(s), 1))
    ELSE IF Head(s) \in Digits THEN json_number(s, DigitsLen(s))
    ELSE IF Len(s) >= 4 /\ SubSeq(s, 1, 4) = <<"n", "u", "l", "l">>
    THEN JsonOk(NoneV, SubSeq(s, 5, Len(s)))
    ELSE JsonFail

\* nothing but blanks may follow the value
json_whole(r) == IF r.ok /\ LStrip(r.rest) = <<>> THEN JsonOk(r.v, <<>>) ELSE JsonFail

\* json.loads(text); ok is false where it raises JSONDecodeError
json_loads(text) == json_whole(json_value(LStrip(text)))

\* lines 663-666 and 692-695: the "kpi" of the text when it is an object
parsed_kpi(r) == IF r.ok /\ r.v.t = "dict" THEN Get(r.v.m, "kpi", NoneV) ELSE NoneV

\* container.get("kpi") of a container that is a mapping or, lines 660 and
\* 689, a text that is not empty
nested_kpi(container) ==
    IF container.t = "dict" THEN Get(container.m, "kpi", NoneV)
    ELSE IF container.t = "str" /\ container.s # <<>> THEN parsed_kpi(json_loads(container.s))
    ELSE NoneV

\* The mapping the rows of a record are taken from, lines 637-699: a mapping
\* in "kpi", in "computed.kpi" or in "v1legacy.kpi" ends the search whatever it
\* holds; one nested in "computed" or "v1legacy", given as a mapping or as JSON
\* text, only when it holds a key. The batches hold no list in these fields.
resolved_kpi(row) ==
    IF RowGet(row, "kpi").t = "dict" THEN RowGet(row, "kpi")
    ELSE IF RowGet(row, "computed.kpi").t = "dict" THEN RowGet(row, "computed.kpi")
    ELSE IF nested_kpi(RowGet(row, "computed")).t = "dict"
            /\ Truthy(nested_kpi(RowGet(row, "computed")))
    THEN nested_kpi(RowGet(row, "computed"))
    ELSE IF RowGet(row, "v1legacy.kpi").t = "dict" THEN RowGet(row, "v1legacy.kpi")
    ELSE IF nested_kpi(RowGet(row, "v1legacy")).t = "dict"
            /\ Truthy(nested_kpi(RowGet(row, "v1legacy")))
    THEN nested_kpi(RowGet(row, "v1legacy"))
    ELSE NoneV

\* the rows each record of the batch adds to kpi_records, lines 629-699
kpi_by_record(df) ==
    [i \in 1..Len(df.rows) |->
        extract_kpi_from_record(df.rows[i], resolved_kpi(df.rows[i]))]

\* kpi_records at line 701
kpi_records_of(df) == Flatten(kpi_by_record(df))

\* company_info, lines 722-726
company_info(record) ==
    DictV([label |-> Get(record, "socialName", StrV(EmptyStr)),
           siren |-> Get(record, "siren", StrV(EmptyStr)),
           siret |-> Get(record, "siret", StrV(EmptyStr))])

\* x if isinstance(x, list) else [x]
AsList(x) == IF x.t = "list" THEN x.l ELSE <<x>>

\* lines 727-729; company_info not in companies raises TypeError when
\* companies is no list
attach_company(info, m, companies) ==
    IF companies.t # "list" THEN [raised |-> TRUE, rows |-> <<>>]
    ELSE [raised |-> FALSE,
          rows |-> <<("companies" :>
                        ListV(IF info \in Range(companies.l) THEN companies.l
                              ELSE Append(companies.l, info))) @@ m>>]

\* lines 715-729 for one article
article_with_company(info, article) ==
    IF Truthy(article) /\ article.t = "dict"
    THEN attach_company(info, article.m, Get(article.m, "companies", ListV(<<>>)))
    ELSE IF Truthy(article) /\ article.t = "list"
    THEN attach_company(info, <<>>, ListV(<<>>))
    ELSE [raised |-> FALSE, rows |-> <<>>]

\* the outcomes put together: raised when one raised
Gather(outs) ==
    [raised |-> \E i \in 1..Len(outs) : outs[i].raised,
     rows |-> Flatten([i \in 1..Len(outs) |-> outs[i].rows])]

articles_of(info, articles_list) ==
    Gather([i \in 1..Len(articles_list) |-> article_with_company(info, articles_list[i])])

\* extract_articles_from_record, lines 710-729, of a value that is read only
\* when it is truthy
extract_articles_from_record(record, articles_data) ==
    IF Truthy(articles_data) THEN articles_of(company_info(record), AsList(articles_data))
    ELSE [raised |-> FALSE, rows |-> <<>>]

\* container[key] of a container that is a mapping holding the key
Nested(record, container, key) ==
    IF Get(record, container, NoneV).t = "dict"
    THEN Get(Get(record, container, NoneV).m, key, NoneV)
    ELSE NoneV

\* the places articles are read from, lines 732-747
article_sources(record) ==
    <<Get(record, "article", NoneV), Get(record, "articles", NoneV),
      Nested(record, "computed", "article"), Nested(record, "computed", "articles"),
      Nested(record, "v1legacy", "article"), Nested(record, "v1legacy", "articles")>>

record_articles(record) ==
    Gather([i \in 1..Len(article_sources(record)) |->
               extract_articles_from_record(record, article_sources(record)[i])])

\* lines 750-753: every truthy entry, an empty mapping for one that is none
signal_dicts(l) ==
    [i \in 1..Len(SelectSeq(l, Truthy)) |->
        IF SelectSeq(l, Truthy)[i].t = "dict" THEN SelectSeq(l, Truthy)[i].m ELSE <<>>]

\* lines 749-758
record_signals(record) ==
    IF Truthy(Get(record, "signals", NoneV))
    THEN signal_dicts(AsList(Get(record, "signals", NoneV)))
    ELSE IF Truthy(Get(record, "projects", NoneV))
    THEN signal_dicts(AsList(Get(record, "projects", NoneV)))
    ELSE <<>>

\* articles_records at line 760, or raised
articles_records_of(df) ==
    Gather([i \in 1..Len(df.rows) |-> record_articles(df.rows[i])])

\* signals_records at line 767
signals_records_of(df) ==
    Flatten([i \in 1..Len(df.rows) |-> record_signals(df.rows[i])])

\* What the call leaves in the batch. article.copy() at line 717 copies the
\* mapping, not the list it holds under "companies": the append of line 728
\* is made to the list of the article of the batch.
appended_in_place(info, article) ==
    IF /\ Truthy(article) /\ article.t = "dict"
       /\ "companies" \in DOMAIN article.m
       /\ article.m["companies"].t = "list"
       /\ info \notin Range(article.m["companies"].l)
    THEN DictV([article.m EXCEPT !["companies"] = ListV(Append(@.l, info))])
    ELSE article

\* the articles read at one place, in the order of the loop of line 714
articles_at(v) == IF Truthy(v) THEN AsList(v) ELSE <<>>

\* a position of the loops of lines 731 and 714: record, place, article
Position(i, s, j) == <<i, s, j>>

NotAfter(a, b) ==
    \/ a[1] < b[1]
    \/ a[1] = b[1] /\ a[2] < b[2]
    \/ a[1] = b[1] /\ a[2] = b[2] /\ a[3] <= b[3]

\* the positions at which line 727 raises
raising_positions(df) ==
    {pos \in UNION {{Position(i, s, j) :
                        j \in 1..Len(articles_at(article_sources(df.rows[i])[s]))} :
                    i \in 1..Len(df.rows), s \in 1..6} :
        article_with_company(company_info(df.rows[pos[1]]),
            articles_at(article_sources(df.rows[pos[1]])[pos[2]])[pos[3]]).raised}

\* the loop gets to the position and past line 727 there
Reached(raising, pos) == \A r \in raising : ~NotAfter(r, pos)

article_after(df, raising, pos, article) ==
    IF Reached(raising, pos)
    THEN appended_in_place(company_info(df.rows[pos[1]]), article)
    ELSE article

\* the value of the place s of the record i after the call
source_after(df, raising, i, s, v) ==
    IF ~Truthy(v) THEN v
    ELSE IF v.t = "list"
    THEN ListV([j \in 1..Len(v.l) |->
                   article_after(df, raising, Position(i, s, j), v.l[j])])
    ELSE article_after(df, raising, Position(i, s, 1), v)

\* record["computed"] and record["v1legacy"], whose articles are the places
\* s and s + 1
container_after(df, raising, i, s, c) ==
    IF c.t = "dict"
    THEN DictV([k \in DOMAIN c.m |->
                   IF k = "article" THEN source_after(df, raising, i, s, c.m[k])
                   ELSE IF k = "articles" THEN source_after(df, raising, i, s + 1, c.m[k])
                   ELSE c.m[k]])
    ELSE c

record_after(df, raising, i) ==
    [f \in DOMAIN df.rows[i] |->
        CASE f = "article" -> source_after(df, raising, i, 1, df.rows[i][f])
          [] f = "articles" -> source_after(df, raising, i, 2, df.rows[i][f])
          [] f = "computed" -> container_after(df, raising, i, 3, df.rows[i][f])
          [] f = "v1legacy" -> container_after(df, raising, i, 5, df.rows[i][f])
          [] OTHER -> df.rows[i][f]]

rows_after(df, raising) == [i \in 1..Len(df.rows) |-> record_after(df, raising, i)]

\* the batch object after extract_chunk(df): records of line 706 are the
\* mappings of the batch, so what lines 710-747 change in them is changed
\* in the batch
batch_after(df) ==
    IF base_index_raises(df) \/ IsEmpty(df) THEN df
    ELSE Table(df.cols, df.index, rows_after(df, raising_positions(df)))

dataframe_names ==
    {"01_company_basic_info", "02_financial_data", "03_workforce_data",
     "04_company_structure", "05_classification_flags", "06_contact_metrics",
     "07_kpi_data"}

kpi_name == "07_kpi_data"

\* buffers that hold the tables of the last batch only
append_tables_replace(dataframes, df, kpi_records) ==
    [name \in dataframe_names |->
        IF name # kpi_name THEN <<company_table(df, name)>>
        ELSE IF kpi_records # <<>> THEN <<DataFrameOf(kpi_records, kpi_key_order)>>
        ELSE dataframes[name]]

\* self.dataframes after lines 475-703
append_tables(dataframes, df, kpi_records) ==
    [name \in dataframe_names |->
        IF name # kpi_name THEN Append(dataframes[name], company_table(df, name))
        ELSE IF kpi_records # <<>>
        THEN Append(dataframes[name], DataFrameOf(kpi_records, kpi_key_order))
        ELSE dataframes[name]]

\* lines 760-772: the embedded rows are expanded by the article and the
\* project extractor, whose exception is caught; out is the outcome of
\* extract_chunk, not called when there is no record
Guarded(list, records, out) ==
    IF records = <<>> THEN [failed |-> FALSE, list |-> list, last |-> <<>>]
    ELSE [failed |-> out.raised, list |-> out.list, last |-> out.last]

\* the extractor after extract_chunk: raised tells whether the call raised,
\* failed which embedded expansions were given up with a warning
Outcome(raised, dataframes, by_record, arts, sigs) ==
    [raised |-> raised, dataframes |-> dataframes, kpi_by_record |-> by_record,
     kpi_records |-> Flatten(by_record),
     articles_list |-> arts.list, signals_list |-> sigs.list,
     articles_last |-> arts.last, signals_last |-> sigs.last,
     failed |-> (IF arts.failed THEN {"articles"} ELSE {})
                    \cup (IF sigs.failed THEN {"signals"} ELSE {})]

Untouched(list) == [failed |-> FALSE, list |-> list, last |-> <<>>]

\* lines 705-772 with the embedded records read from the batch
company_embedded(dataframes, articles_list, signals_list, by_record, arts, sigs) ==
    IF arts.raised
    THEN Outcome(TRUE, dataframes, by_record, Untouched(articles_list),
                 Untouched(signals_list))
    ELSE Outcome(FALSE, dataframes, by_record,
                 Guarded(articles_list, arts.rows,
                         article_extract_chunk(articles_list, arts.rows)),
                 Guarded(signals_list, sigs,
                         project_extract_chunk(signals_list, sigs)))

\* VectorizedCompanyExtractor.extract_chunk
company_extract_chunk(dataframes, articles_list, signals_list, df) ==
    IF base_index_raises(df)
    THEN Outcome(TRUE, dataframes, <<>>, Untouched(articles_list), Untouched(signals_list))
    ELSE IF IsEmpty(df)
    THEN Outcome(FALSE, append_tables(dataframes, df, kpi_records_of(df)),
                 kpi_by_record(df), Untouched(articles_list), Untouched(signals_list))
    ELSE company_embedded(append_tables(dataframes, df, kpi_records_of(df)),
                          articles_list, signals_list, kpi_by_record(df),
                          articles_records_of(df), signals_records_of(df))

\* VectorizedCompanyExtractor.get_datasets, lines 774-789
company_get_datasets(dataframes, articles_list, signals_list) ==
    [name \in dataframe_names \cup {"08_signals", "09_articles"} |->
        IF name = "09_articles" THEN article_get_datasets(articles_list)[name]
        ELSE IF name = "08_signals" THEN project_get_datasets(signals_list)[name]
        ELSE IF dataframes[name] # <<>> THEN Concat(dataframes[name])
        ELSE EmptyTable]

----------------------------------------------------------------------------
(* FastDatasetExtractor and make_extract_pipeline *)

file_types == {"company", "article", "project"}

Failed == [raised |-> TRUE, datasets |-> <<>>]
Datasets(d) == [raised |-> FALSE, datasets |-> d]

\* lines 48-60 for the article extractor: extract_chunk of every batch, then
\* get_datasets; an exception of extract_chunk leaves transform
RECURSIVE article_transform(_, _)
article_transform(articles_list, chunks) ==
    IF chunks = <<>> THEN Datasets(article_get_datasets(articles_list))
    ELSE IF article_extract_chunk(articles_list, Head(chunks).rows).raised THEN Failed
    ELSE article_transform(article_extract_chunk(articles_list, Head(chunks).rows).list,
                           Tail(chunks))

RECURSIVE project_transform(_, _)
project_transform(signals_list, chunks) ==
    IF chunks = <<>> THEN Datasets(project_get_datasets(signals_list))
    ELSE IF project_extract_chunk(signals_list, Head(chunks).rows).raised THEN Failed
    ELSE project_transform(project_extract_chunk(signals_list, Head(chunks).rows).list,
                           Tail(chunks))

RECURSIVE company_transform(_, _)
company_transform(e, chunks) ==
    IF chunks = <<>>
    THEN Datasets(company_get_datasets(e.dataframes, e.articles_list, e.signals_list))
    ELSE IF company_extract_chunk(e.dataframes, e.articles_list, e.signals_list,
                                  Head(chunks)).raised
    THEN Failed
    ELSE company_transform(company_extract_chunk(e.dataframes, e.articles_list,
                                                 e.signals_list, Head(chunks)),
                           Tail(chunks))

NewCompanyExtractor ==
    [dataframes |-> [name \in dataframe_names |-> <<>>], articles_list |-> <<>>,
     signals_list |-> <<>>]

\* no object: the constructor raised
NotBuilt == [raised |-> TRUE, file_type |-> "", extractor |-> [kind |-> "none"]]

\* the object with its extractor
Built(file_type, extractor) ==
    [raised |-> FALSE, file_type |-> file_type, extractor |-> extractor]

\* the extractor of a file type, lines 35-40
new_extractor(file_type) ==
    CASE file_type = "company" -> [kind |-> "company"] @@ NewCompanyExtractor
      [] file_type = "project" -> [kind |-> "project", signals_list |-> <<>>]
      [] OTHER -> [kind |-> "article", articles_list |-> <<>>]

\* a constructor that accepts every file_type
FastDatasetExtractor_Any(file_type) == Built(file_type, new_extractor(file_type))

\* FastDatasetExtractor(file_type), lines 27-42: ValueError for a file_type
\* other than the three
FastDatasetExtractor(file_type) ==
    IF file_type \in file_types THEN Built(file_type, new_extractor(file_type))
    ELSE NotBuilt

\* transform(chunks) of the object, lines 47-61
extractor_transform(extractor, chunks) ==
    CASE extractor.kind = "company" -> company_transform(extractor, chunks)
      [] extractor.kind = "article" -> article_transform(extractor.articles_list, chunks)
      [] extractor.kind = "project" -> project_transform(extractor.signals_list, chunks)

\* built is FastDatasetExtractor(file_type): an exception of the constructor
\* leaves the caller before transform is called
transform_of(built, chunks) ==
    IF built.raised THEN Failed ELSE extractor_transform(built.extractor, chunks)

\* FastDatasetExtractor(file_type).transform(chunks), lines 114-117
dataset_extractor_transform(file_type, chunks) ==
    transform_of(FastDatasetExtractor(file_type), chunks)

\* all_datasets, lines 105-119: the results of the files that exist, in the
\* order of file_paths
all_datasets_of(file_paths) ==
    [i \in 1..Len(SelectSeq(file_paths, LAMBDA f : f.exists)) |->
        dataset_extractor_transform(SelectSeq(file_paths, LAMBDA f : f.exists)[i].file_type,
                                    SelectSeq(file_paths, LAMBDA f : f.exists)[i].chunks)]

\* merged[name], lines 121-126: the tables of that name that are not empty
merged_list(all_datasets, name) ==
    SelectSeq([i \in 1..Len(all_datasets) |->
                  IF name \in DOMAIN all_datasets[i].datasets
                  THEN all_datasets[i].datasets[name] ELSE EmptyTable],
              LAMBDA df : ~IsEmpty(df))

\* final_datasets before the catalog, lines 128-133
final_datasets_of(all_datasets) ==
    [name \in UNION {DOMAIN all_datasets[i].datasets : i \in 1..Len(all_datasets)} |->
        IF merged_list(all_datasets, name) # <<>>
        THEN Concat(merged_list(all_datasets, name)) ELSE EmptyTable]

merge_and_tidy(all_datasets) ==
    IF \E i \in 1..Len(all_datasets) : all_datasets[i].raised THEN Failed
    ELSE Datasets(CatalogTransform(final_datasets_of(all_datasets)))

\* make_extract_pipeline(file_paths), lines 84-139
make_extract_pipeline(file_paths) == merge_and_tidy(all_datasets_of(file_paths))

----------------------------------------------------------------------------
(* The values format_siret is called with *)

SigDigits == {"0", "1", "9"}
PadDigits == {"0", "9"}

\* digit strings: a short group of digits followed by a run of one digit
DigitStrs ==
    {sig \o Rep(p, k) : sig \in SeqsUpTo(SigDigits, MaxSig),
                        p \in PadDigits, k \in 0..MaxPad} \ {<<>>}

\* the digit strings whose value is a double: float(text) is exact on them
ExactStrs == {ds \in DigitStrs : Len(Canon(ds)) <= FloatExactDigits}

IntInputs ==
    {IntV(neg, Canon(ds)) : neg \in BOOLEAN, ds \in DigitStrs}
        \ {IntV(TRUE, <<"0">>)}

FloatInputs ==
    {FloatV(neg, Canon(ds), frac) : neg \in BOOLEAN, frac \in BOOLEAN, ds \in ExactStrs}
        \cup {InfV(FALSE), InfV(TRUE)}

\* numeric text: bare, padded with blanks, signed, with a fraction
NumericStrInputs ==
    UNION {{StrV(ds), StrV(<<" ">> \o ds \o <<" ">>), StrV(<<"-">> \o ds),
            StrV(ds \o <<".", "5">>), StrV(ds \o <<".", "0">>)} : ds \in ExactStrs}

\* text that is no number, and the missing markers
OtherInputs ==
    {NoneV, StrV(EmptyStr), StrV(NanStr), StrV(<<" ">>), StrV(<<" ", "n", "a", "n">>),
     StrV(<<"a", "b", "c">>), StrV(<<"1", "2", "a">>), StrV(<<"1", ".", "2", ".", "3">>),
     StrV(<<"N", "a", "N">>), StrV(InfStr), StrV(<<"-">>),
     DictV([siret |-> IntV(FALSE, <<"5">>)]), DictV(<<>>),
     ListV(<<NoneV>>), ListV(<<IntV(FALSE, <<"5">>)>>), ListV(<<>>),
     ListV(<<StrV(<<"1">>), StrV(<<"2">>)>>)}

SiretInputs == IntInputs \cup FloatInputs \cup NumericStrInputs \cup OtherInputs

\* the text is parsed exactly by float(): no number, or a number that is a double
ExactText(s) ==
    ParseFloat(Strip(s)).ok => Len(Canon(ParseFloat(Strip(s)).d)) <= FloatExactDigits

SiretOff ==
    /\ s_in = NoneV
    /\ s_out = Returned(EmptyStr)
    /\ s_out2 = Returned(EmptyStr)
    /\ s_pc = "off"

SiretInit ==
    /\ s_in \in SiretInputs
    /\ s_out = Returned(EmptyStr)
    /\ s_out2 = Returned(EmptyStr)
    /\ s_pc = "idle"

\* the call format_siret(s_in)
FormatSiretCall ==
    /\ s_pc = "idle"
    /\ s_out' = format_siret(s_in)
    /\ s_pc' = "once"
    /\ UNCHANGED <<s_in, s_out2>>
    /\ UNCHANGED notSiret

\* format_siret applied to the text the call returned
FormatSiretAgain ==
    /\ s_pc = "once"
    /\ ~s_out.raised
    /\ ExactText(s_out.s)
    /\ s_out2' = format_siret(StrV(s_out.s))
    /\ s_pc' = "twice"
    /\ UNCHANGED <<s_in, s_out>>
    /\ UNCHANGED notSiret

SiretNext == FormatSiretCall \/ FormatSiretAgain

----------------------------------------------------------------------------
(* The mappings DatasetCatalog.transform is called with *)

\* most columns of a generated table
MaxCols == 3
\* most rows of a generated table
MaxCatRows == 2

CatColumns == {"company_name", "siren", "siret", "year", "ca", "caBilan"}

\* the sequences of at most n distinct elements of S
DistinctSeqs(S, n) ==
    {s \in SeqsUpTo(S, n) : \A i, j \in 1..Len(s) : i < j => s[i] # s[j]}

\* every cell holds its row's label and its column's name, so that a moved,
\* dropped or overwritten cell shows
CellTable(cols, index) ==
    Table(cols, index, [i \in 1..Len(index) |-> [c \in Range(cols) |-> <<index[i], c>>]])

CatTables ==
    {CellTable(cols, index) : cols \in DistinctSeqs(CatColumns, MaxCols),
                              index \in DistinctSeqs(0..MaxCatRows, MaxCatRows)}

\* the second table of a mapping of two
CatSecondTables ==
    {EmptyTable, CellTable(<<"year", "siret">>, <<>>),
     CellTable(<<"year", "siret", "ca", "siren">>, <<1, 0>>)}

CatMappings ==
    {[k \in {"09_articles"} |-> df] : df \in CatTables}
        \cup {[k \in {"07_kpi_data", "09_articles"} |->
                 IF k = "07_kpi_data" THEN df ELSE other] :
                 df \in CatTables, other \in CatSecondTables}

NoDatasets == [k \in {} |-> EmptyTable]

CatOff ==
    /\ c_in = NoDatasets
    /\ c_out = NoDatasets
    /\ c_out2 = NoDatasets
    /\ c_pc = "off"

CatInit ==
    /\ c_in \in CatMappings
    /\ c_out = NoDatasets
    /\ c_out2 = NoDatasets
    /\ c_pc = "idle"

\* DatasetCatalog().transform(c_in)
CatalogCall ==
    /\ c_pc = "idle"
    /\ c_out' = CatalogTransform(c_in)
    /\ c_pc' = "once"
    /\ UNCHANGED <<c_in, c_out2>>
    /\ UNCHANGED notCat

\* DatasetCatalog().transform of the mapping the call returned
CatalogCallAgain ==
    /\ c_pc = "once"
    /\ c_out2' = CatalogTransform(c_out)
    /\ c_pc' = "twice"
    /\ UNCHANGED <<c_in, c_out>>
    /\ UNCHANGED notCat

CatNext == CatalogCall \/ CatalogCallAgain

----------------------------------------------------------------------------
(* The batches the article extractor is called with *)

RefA ==
    DictV([label |-> StrV(<<"a">>), siren |-> StrV(<<"1">>), siret |-> IntV(FALSE, <<"5">>)])
RefB ==
    DictV([label |-> NoneV, siren |-> IntV(FALSE, <<"2">>), siret |-> StrV(<<"x">>)])
RefC == DictV([id |-> IntV(FALSE, <<"7">>)])

\* company references: mappings, a null, a bare string
RefRing == <<RefA, NoneV, RefB, RefC, StrV(<<"9">>)>>

\* the lists of at most n consecutive elements of a ring
RingLists(ring, n) ==
    {<<>>} \cup {[i \in 1..k |-> ring[((s + i - 2) % Len(ring)) + 1]] :
                    s \in 1..Len(ring), k \in 1..n}

CompaniesVals ==
    {NoneV, NanV, StrV(<<"9">>)} \cup {ListV(l) : l \in RingLists(RefRing, MaxList)}

AllCompaniesVals == {NoneV, ListV(<<>>), ListV(<<NoneV>>), ListV(<<RefB, RefA>>)}

ArticleRows ==
    {[companies |-> c, all_companies |-> a, title |-> StrV(<<"t">>)] :
        c \in CompaniesVals, a \in AllCompaniesVals}

\* rows without the columns
ArticleSecondRows ==
    {[title |-> StrV(<<"u">>)],
     [companies |-> ListV(<<RefC, RefA>>), title |-> NoneV]}

\* the first batch: no row, one row, or one row followed by a second one
ArticleChunks ==
    {<<>>} \cup {<<r>> : r \in ArticleRows}
           \cup {<<r, r2>> : r \in ArticleRows, r2 \in ArticleSecondRows}

\* the later batches
ArticleLaterChunks ==
    {<<>>, <<[companies |-> ListV(<<RefA>>), title |-> StrV(<<"v">>)]>>,
     <<[title |-> StrV(<<"w">>)], [all_companies |-> ListV(<<RefB, RefC>>)]>>}

ArtOff ==
    /\ a_list = <<>>
    /\ a_chunk = <<>>
    /\ a_last = <<>>
    /\ a_raised = FALSE
    /\ a_calls = 0
    /\ a_result = NoDatasets

\* VectorizedArticleExtractor(): an empty buffer
ArtInit == ArtOff

\* the state after an extract_chunk call with outcome r
ArticleCalled(chunk, r) ==
    /\ a_chunk' = chunk
    /\ a_list' = r.list
    /\ a_raised' = r.raised
    /\ a_last' = r.last
    /\ a_calls' = a_calls + 1

\* extractor.extract_chunk(chunk)
ArticleExtractChunk ==
    /\ a_calls < MaxBatches
    /\ \E chunk \in (IF a_calls = 0 THEN ArticleChunks ELSE ArticleLaterChunks) :
          ArticleCalled(chunk, article_extract_chunk(a_list, chunk))
    /\ UNCHANGED a_result
    /\ UNCHANGED notArt

\* extractor.get_datasets()
ArticleGetDatasets ==
    /\ a_result' = article_get_datasets(a_list)
    /\ UNCHANGED <<a_list, a_chunk, a_last, a_raised, a_calls>>
    /\ UNCHANGED notArt

ArtNext == ArticleExtractChunk \/ ArticleGetDatasets

----------------------------------------------------------------------------
(* The batches the project extractor is called with *)

IdA == DictV([id |-> IntV(FALSE, <<"7">>)])
IdB == DictV([id |-> IntV(FALSE, <<"0">>), label |-> StrV(<<"b">>)])

ProjCompaniesVals ==
    {NoneV, ListV(<<>>), ListV(<<NoneV>>), ListV(<<IdA>>), ListV(<<IdA, StrV(<<"9">>)>>),
     ListV(<<NoneV, IdB>>)}

CompaniesMainVals == {NoneV, ListV(<<IdB>>)}

ProjAllCompaniesVals == {NoneV, ListV(<<IdA, IdB>>)}

Siret14 == Rep("1", 9) \o Rep("2", SiretWidth - 9)

\* SIRET entries: numbers, texts, mappings, a null, a nested list
SiretRing ==
    <<IntV(FALSE, <<"5">>), StrV(<<"a", "b", "c">>), DictV([siret |-> StrV(Siret14)]),
      NoneV, IntV(TRUE, <<"5">>), ListV(<<StrV(<<"1">>), StrV(<<"2">>)>>),
      DictV([id |-> StrV(<<"1">>)]), StrV(Siret14 \o <<"3">>)>>

SiretsVals ==
    {NoneV, NanV, StrV(Siret14)} \cup {ListV(l) : l \in RingLists(SiretRing, MaxList)}

ProjectRows ==
    {[companies |-> c, companiesmain |-> m, allCompanies |-> a, sirets |-> s,
      publishedAt |-> StrV(<<"d">>)] :
        c \in ProjCompaniesVals, m \in CompaniesMainVals, a \in ProjAllCompaniesVals,
        s \in SiretsVals}

\* rows without the columns
ProjectSecondRows ==
    {[publishedAt |-> NoneV],
     [sirets |-> ListV(<<StrV(<<"4">>), IdA>>), companies |-> ListV(<<IdB>>)]}

\* the first batch: no row, one row, or one row followed by a second one
ProjectChunks ==
    {<<>>} \cup {<<r>> : r \in ProjectRows}
           \cup {<<r, r2>> : r \in ProjectRows, r2 \in ProjectSecondRows}

\* the later batches
ProjectLaterChunks ==
    {<<>>, <<[sirets |-> ListV(<<IntV(FALSE, <<"5">>)>>)]>>,
     <<[publishedAt |-> StrV(<<"e">>)], [allCompanies |-> ListV(<<IdA>>)]>>}

ProjOff ==
    /\ p_list = <<>>
    /\ p_chunk = <<>>
    /\ p_last = <<>>
    /\ p_raised = FALSE
    /\ p_calls = 0
    /\ p_result = NoDatasets

\* VectorizedProjectExtractor(): an empty buffer
ProjInit == ProjOff

\* the state after an extract_chunk call with outcome r
ProjectCalled(chunk, r) ==
    /\ p_chunk' = chunk
    /\ p_list' = r.list
    /\ p_raised' = r.raised
    /\ p_last' = r.last
    /\ p_calls' = p_calls + 1

\* extractor.extract_chunk(chunk)
ProjectExtractChunk ==
    /\ p_calls < MaxBatches
    /\ \E chunk \in (IF p_calls = 0 THEN ProjectChunks ELSE ProjectLaterChunks) :
          ProjectCalled(chunk, project_extract_chunk(p_list, chunk))
    /\ UNCHANGED p_result
    /\ UNCHANGED notProj

\* extractor.get_datasets()
ProjectGetDatasets ==
    /\ p_result' = project_get_datasets(p_list)
    /\ UNCHANGED <<p_list, p_chunk, p_last, p_raised, p_calls>>
    /\ UNCHANGED notProj

ProjNext == ProjectExtractChunk \/ ProjectGetDatasets

----------------------------------------------------------------------------
(* The batches the company extractor is called with *)

NoFields == <<>>

Acme == StrV(<<"A", "c", "m", "e">>)
Siren9 == StrV(Rep("1", 9))

NameFields ==
    {NoFields, [socialName |-> Acme], [socialName |-> NoneV, label |-> StrV(<<"L">>)],
     [name |-> StrV(<<"N">>), raison_sociale |-> StrV(<<"R">>)]}

SirenFields == {NoFields, [siren |-> Siren9], [siren |-> IntV(FALSE, <<"7">>)]}

SiretFields ==
    {NoFields, [siret |-> IntV(FALSE, <<"5">>)], [siret |-> StrV(Siret14)],
     [siret |-> StrV(<<"a", "b", "c">>)],
     [siret |-> ListV(<<StrV(<<"1">>), StrV(<<"2">>)>>)]}

\* the fields of the tables 01-06 other than the identity
DetailFields ==
    {NoFields,
     [startup |-> BoolV(TRUE), hasGroupOwner |-> BoolV(FALSE),
      nbContacts |-> IntV(FALSE, <<"3">>), webSite |-> StrV(<<"w">>),
      department |-> DictV([label |-> StrV(<<"D">>), id |-> IntV(FALSE, <<"7">>)]),
      effectif |-> StrV(<<"9">>)]}

\* every identity
Identities ==
    {n @@ s @@ t @@ d : n \in NameFields, s \in SirenFields, t \in SiretFields,
                       d \in DetailFields}

\* the identities the KPI and embedded fields are combined with
CoreIdentities ==
    {[socialName |-> Acme, siren |-> Siren9, siret |-> StrV(Siret14)],
     [label |-> StrV(<<"L">>), siret |-> IntV(FALSE, <<"5">>)]}

Metrics1 == DictV([ca |-> IntV(FALSE, <<"1">>)])
Metrics2 == DictV([ca |-> IntV(FALSE, <<"2">>), caBilan |-> IntV(FALSE, <<"3">>)])
OneYear == DictV(("2022" :> Metrics1))
TwoYears == DictV(("2022" :> Metrics1) @@ ("2023" :> Metrics2))
ThreeYears == DictV(("2021" :> Metrics2) @@ ("2022" :> Metrics1) @@ ("2023" :> Metrics2))
NoYear == DictV(<<>>)

Quoted(name) == <<"\"">> \o Spell[name] \o <<"\"">>

\* {"kpi": {"2022": {"ca": 1}}}, {"kpi":{}} and a text that is no JSON
JsonOneYear ==
    <<"{">> \o Quoted("kpi") \o <<":", " ", "{">> \o Quoted("2022") \o <<":", " ", "{">>
        \o Quoted("ca") \o <<":", " ", "1", "}", "}", "}">>
JsonNoYear == <<"{">> \o Quoted("kpi") \o <<":", "{", "}", "}">>
JsonBad == <<"{", "k", "p", "i">>

\* the KPI fields of a record
KpiFields ==
    {NoFields,
     [computed |-> StrV(JsonOneYear)],
     [computed |-> StrV(JsonNoYear), v1legacy |-> StrV(JsonOneYear)],
     [computed |-> StrV(JsonBad)] @@ ("v1legacy.kpi" :> TwoYears),
     ("computed.kpi" :> NoYear) @@ [v1legacy |-> DictV([kpi |-> OneYear])],
     [kpi |-> TwoYears],
     [kpi |-> ThreeYears],
     [kpi |-> NoYear] @@ ("computed.kpi" :> OneYear),
     ("computed.kpi" :> OneYear),
     [computed |-> DictV([kpi |-> TwoYears])],
     [kpi |-> NanV] @@ ("v1legacy.kpi" :> OneYear),
     [computed |-> DictV([kpi |-> NoYear]), v1legacy |-> DictV([kpi |-> OneYear])],
     [kpi |-> DictV(("2022" :> StrV(<<"x">>)) @@ ("2023" :> Metrics2))],
     [kpi |-> DictV(("2022" :> DictV([year |-> StrV(<<"9">>), siren |-> StrV(<<"X">>),
                                      ca |-> IntV(FALSE, <<"1">>)])))],
     [kpi |-> StrV(<<"x">>), v1legacy |-> DictV([kpi |-> TwoYears])],
     [kpi |-> NoneV, computed |-> StrV(<<>>), v1legacy |-> DictV([id |-> NoneV])]}

Titled(s) == [title |-> StrV(<<s>>)]

\* a reference whose siret makes format_siret raise
RefBad == DictV([label |-> StrV(<<"z">>), siret |-> ListV(<<StrV(<<"1">>), StrV(<<"2">>)>>)])

\* the embedded articles and signals of the record with the fields ident
EmbeddedFields(ident) ==
    {NoFields,
     [articles |-> ListV(<<DictV(Titled("t") @@ [companies |-> ListV(<<RefA>>)])>>)],
     [articles |-> ListV(<<DictV(Titled("t")),
                           DictV(Titled("u") @@ [companies |-> ListV(<<RefB, RefA>>)])>>)],
     [article |-> DictV(Titled("t") @@ [companies |-> ListV(<<>>)])],
     [articles |-> ListV(<<DictV(Titled("t") @@ [companies |-> NoneV])>>)],
     [articles |-> ListV(<<DictV(Titled("t") @@ [companies |-> ListV(<<company_info(ident)>>)])>>)],
     [articles |-> ListV(<<DictV(Titled("t") @@ [companies |-> ListV(<<NoneV>>)])>>)],
     [articles |-> ListV(<<DictV(Titled("t") @@ [companies |-> ListV(<<RefA, RefBad>>)])>>),
      projects |-> DictV([companies |-> ListV(<<IdA>>)])],
     [computed |-> DictV([articles |-> ListV(<<DictV(Titled("t")), ListV(<<NoneV>>)>>)]),
      v1legacy |-> DictV([article |-> DictV(Titled("u"))])],
     [signals |-> ListV(<<DictV([sirets |-> ListV(<<IntV(FALSE, <<"5">>)>>)]),
                          DictV([companies |-> ListV(<<IdA>>)]), NoneV>>)],
     [signals |-> ListV(<<>>), projects |-> ListV(<<StrV(<<"p">>)>>)],
     [signals |-> DictV([sirets |-> ListV(<<RefBad, NoneV>>)]),
      article |-> DictV(Titled("t"))]}

\* the fields of a and of b; a container both hold has the keys of both
MergeFields(a, b) ==
    [f \in DOMAIN a \cup DOMAIN b |->
        IF f \in DOMAIN a /\ f \in DOMAIN b
        THEN IF a[f].t = "dict" /\ b[f].t = "dict" THEN DictV(a[f].m @@ b[f].m) ELSE a[f]
        ELSE IF f \in DOMAIN a THEN a[f] ELSE b[f]]

\* the KPI fields the embedded fields are combined with
CoreKpiFields ==
    {NoFields, [kpi |-> TwoYears], [computed |-> DictV([kpi |-> TwoYears])]}

\* a record named by its label, with a KPI mapping
LabelledKpi == [socialName |-> NoneV, label |-> StrV(<<"L">>), siren |-> Siren9, kpi |-> OneYear]

CompanyRecords ==
    Identities
    \cup {LabelledKpi}
    \cup {i @@ k : i \in CoreIdentities, k \in KpiFields}
    \cup {MergeFields(i @@ k, e) : i \in CoreIdentities, k \in CoreKpiFields,
                                  e \in UNION {EmbeddedFields(j) : j \in CoreIdentities}}

\* the records that follow the first record of a batch
CompanySecondRecords ==
    {[label |-> StrV(<<"Z">>)],
     [socialName |-> StrV(<<"D">>), radiate |-> BoolV(TRUE), nbMarques |-> IntV(FALSE, <<"2">>),
      caBilan |-> StrV(<<"5">>), dateCloture |-> NoneV],
     [socialName |-> StrV(<<"B">>), siren |-> NanV, kpi |-> OneYear,
      signals |-> ListV(<<DictV([sirets |-> ListV(<<StrV(Siret14)>>)])>>),
      articles |-> ListV(<<DictV(Titled("v"))>>)]}

\* the fields of the records, in the order in which a record lists them
company_field_order ==
    <<"socialName", "label", "name", "raison_sociale", "siren", "siret", "kpi", "computed.kpi",
      "computed", "v1legacy.kpi", "v1legacy", "article", "articles", "signals", "projects",
      "department", "caBilan", "dateCloture", "effectif", "nbMarques", "hasGroupOwner",
      "startup", "radiate", "nbContacts", "webSite">>

\* the batch of the records, the first of them labelled start
Chunk(start, records) ==
    Table(KeysInOrder(<<>>, records, company_field_order),
          [i \in 1..Len(records) |-> start + i - 1],
          [i \in 1..Len(records) |->
              Fill(records[i], KeysInOrder(<<>>, records, company_field_order))])

\* the first batch: no record, one record, or one record followed by a second
CompanyChunks ==
    {Chunk(0, <<>>)} \cup {Chunk(0, <<r>>) : r \in CompanyRecords}
        \cup {Chunk(0, <<r, r2>>) : r \in CompanyRecords, r2 \in CompanySecondRecords}

\* the later batches, labelled on from the batches before or from 0
CompanyLaterChunks ==
    {Chunk(0, <<>>),
     Chunk(MaxList, <<[socialName |-> Acme, kpi |-> OneYear, articles |-> ListV(<<DictV(Titled("w"))>>)]>>),
     Chunk(0, <<[siren |-> Siren9, siret |-> StrV(Siret14)], [label |-> StrV(<<"M">>), siren |-> NoneV]>>)}

NoFrames == [name \in dataframe_names |-> <<>>]

NoOutcome ==
    Outcome(FALSE, NoFrames, <<>>, Untouched(<<>>), Untouched(<<>>))

CompOff ==
    /\ k_frames = NoFrames
    /\ k_articles = <<>>
    /\ k_signals = <<>>
    /\ k_chunk = EmptyTable
    /\ k_after = EmptyTable
    /\ k_out = NoOutcome
    /\ k_calls = 0
    /\ k_since = <<>>
    /\ k_result = NoDatasets

\* VectorizedCompanyExtractor(): empty buffers
CompInit == CompOff

\* the state after an extract_chunk call with outcome r
CompanyCalled(chunk, r) ==
    /\ k_chunk' = chunk
    /\ k_after' = batch_after(chunk)
    /\ k_frames' = r.dataframes
    /\ k_articles' = r.articles_list
    /\ k_signals' = r.signals_list
    /\ k_out' = r
    /\ k_calls' = k_calls + 1
    /\ k_since' = Append(k_since, chunk)

\* extractor.extract_chunk(chunk)
CompanyExtractChunk ==
    /\ k_calls < MaxBatches
    /\ \E chunk \in (IF k_calls = 0 THEN CompanyChunks ELSE CompanyLaterChunks) :
          CompanyCalled(chunk, company_extract_chunk(k_frames, k_articles, k_signals, chunk))
    /\ UNCHANGED k_result
    /\ UNCHANGED notComp

\* extractor.get_datasets()
CompanyGetDatasets ==
    /\ k_result' = company_get_datasets(k_frames, k_articles, k_signals)
    /\ k_since' = <<>>
    /\ UNCHANGED <<k_frames, k_articles, k_signals, k_chunk, k_after, k_out, k_calls>>
    /\ UNCHANGED notComp

CompNext == CompanyExtractChunk \/ CompanyGetDatasets

----------------------------------------------------------------------------
(* The files make_extract_pipeline is called with *)

\* a batch of rows as the loader yields it
RowsChunk(rows) == Table(<<>>, [i \in 1..Len(rows) |-> i - 1], rows)

\* what a file of a type holds: the batches the loader yields for it, none for
\* a file without a line
FileChunks(file_type) ==
    CASE file_type = "article" ->
            {<<>>,
             <<RowsChunk(<<[companies |-> ListV(<<RefA, RefB>>), title |-> StrV(<<"t">>)]>>),
               RowsChunk(<<[title |-> StrV(<<"u">>)]>>)>>}
      [] file_type = "project" ->
            {<<RowsChunk(<<[sirets |-> ListV(<<IntV(FALSE, <<"5">>)>>),
                            companies |-> ListV(<<IdA>>)]>>)>>,
             <<RowsChunk(<<[sirets |-> ListV(<<ListV(<<StrV(<<"1">>), StrV(<<"2">>)>>),
                                               StrV(<<"3">>)>>)]>>)>>}
      [] file_type = "company" ->
            {<<Chunk(0, <<[socialName |-> Acme, siren |-> Siren9, siret |-> IntV(FALSE, <<"5">>),
                           kpi |-> TwoYears,
                           articles |-> ListV(<<DictV(Titled("t"))>>)],
                          [socialName |-> StrV(<<"B">>), siren |-> Siren9]>>),
               Chunk(MaxList, <<[socialName |-> StrV(<<"C">>), siren |-> Siren9,
                                 siret |-> StrV(Siret14),
                                 signals |-> ListV(<<DictV([companies |-> ListV(<<IdA>>)])>>)]>>)>>,
             <<Chunk(0, <<[label |-> StrV(<<"L">>)]>>)>>}
      [] OTHER -> {<<>>}

AnyFileTypes == file_types \cup {"other"}

\* a file that is missing, or one that exists and holds batches
Files(file_type) ==
    {[file_type |-> file_type, exists |-> FALSE, chunks |-> <<>>]}
    \cup {[file_type |-> file_type, exists |-> TRUE, chunks |-> c] : c \in FileChunks(file_type)}

MaxFiles == 3

\* file_paths: files of distinct types, in the order of the mapping
PipelineInputs ==
    {s \in UNION {[1..n -> UNION {Files(ft) : ft \in AnyFileTypes}] : n \in 0..MaxFiles} :
        \A i, j \in 1..Len(s) : i # j => s[i].file_type # s[j].file_type}

NoFile == [file_type |-> "", exists |-> FALSE, chunks |-> <<>>]

PipeOff ==
    /\ m_paths = <<>>
    /\ m_out = Failed
    /\ m_pc = "off"
    /\ f_in = NoFile
    /\ f_new = NotBuilt
    /\ f_out = Failed

PipeInit ==
    /\ m_paths \in PipelineInputs
    /\ m_out = Failed
    /\ m_pc = "idle"
    /\ f_in = NoFile
    /\ f_new = NotBuilt
    /\ f_out = Failed

\* make_extract_pipeline(file_paths)
MakeExtractPipeline ==
    /\ m_pc = "idle"
    /\ m_out' = make_extract_pipeline(m_paths)
    /\ m_pc' = "done"
    /\ UNCHANGED <<m_paths, f_in, f_new, f_out>>
    /\ UNCHANGED notPipe

\* FastDatasetExtractor(file_type).transform(chunks) on one of the files
DatasetExtractorTransform ==
    /\ m_pc \in {"idle", "done"}
    /\ f_in = NoFile
    /\ \E i \in 1..Len(m_paths) :
          /\ m_paths[i].exists
          /\ f_in' = m_paths[i]
          /\ f_new' = FastDatasetExtractor(m_paths[i].file_type)
          /\ f_out' = dataset_extractor_transform(m_paths[i].file_type, m_paths[i].chunks)
    /\ UNCHANGED <<m_paths, m_out, m_pc>>
    /\ UNCHANGED notPipe

PipeNext == MakeExtractPipeline \/ DatasetExtractorTransform

----------------------------------------------------------------------------
(* Specifications *)

InitSiret == SiretInit /\ CatOff /\ ArtOff /\ ProjOff /\ CompOff /\ PipeOff
SpecSiret == InitSiret /\ [][SiretNext]_vars

InitCatalog == CatInit /\ SiretOff /\ ArtOff /\ ProjOff /\ CompOff /\ PipeOff
SpecCatalog == InitCatalog /\ [][CatNext]_vars

InitArticle == ArtInit /\ SiretOff /\ CatOff /\ ProjOff /\ CompOff /\ PipeOff
SpecArticle == InitArticle /\ [][ArtNext]_vars

InitProject == ProjInit /\ SiretOff /\ CatOff /\ ArtOff /\ CompOff /\ PipeOff
SpecProject == InitProject /\ [][ProjNext]_vars

InitCompany == CompInit /\ SiretOff /\ CatOff /\ ArtOff /\ ProjOff /\ PipeOff
SpecCompany == InitCompany /\ [][CompNext]_vars

InitPipeline == PipeInit /\ SiretOff /\ CatOff /\ ArtOff /\ ProjOff /\ CompOff
SpecPipeline == InitPipeline /\ [][PipeNext]_vars

----------------------------------------------------------------------------
(* C1 *)

\* the input is an int, an integral float or a digit string with 0 <= n < 10^14
IntegerLike(v) ==
    CASE v.t = "int" -> ~v.neg /\ Len(v.d) <= SiretWidth
      [] v.t = "float" -> ~v.neg /\ ~v.frac /\ Len(v.d) <= SiretWidth
      [] v.t = "str" -> v.s # <<>> /\ IsDigits(v.s) /\ Len(Canon(v.s)) <= SiretWidth
      [] OTHER -> FALSE

\* the decimal digits of the value of an integer-like input
ValueDigits(v) == IF v.t = "str" THEN Canon(v.s) ELSE v.d

Is14Digits(s) == Len(s) = SiretWidth /\ IsDigits(s)

\* C1: format_siret of an integer-like n with 0 <= n < 10^14 is the 14-digit
\* zero-padded decimal string of n; of "", null/NaN and "nan" it is ""; of a
\* 14-digit string it is the string itself; and on all of these a second
\* application changes nothing.
C1_FormatSiretContract ==
    s_pc \in {"once", "twice"} =>
        /\ IntegerLike(s_in) =>
              /\ ~s_out.raised
              /\ Is14Digits(s_out.s)
              /\ Canon(s_out.s) = ValueDigits(s_in)
        /\ s_in \in {NoneV, StrV(EmptyStr), StrV(NanStr)} =>
              s_out = Returned(EmptyStr)
        /\ (s_in.t = "str" /\ Is14Digits(s_in.s)) => s_out = Returned(s_in.s)
        /\ (s_pc = "twice"
              /\ (IntegerLike(s_in) \/ s_in \in {NoneV, StrV(EmptyStr), StrV(NanStr)}))
              => s_out2 = s_out

\* a number of fewer than 14 digits was padded, and formatted a second time
C1_Witness ==
    /\ s_pc = "twice"
    /\ s_in.t = "float" /\ IntegerLike(s_in) /\ Len(s_in.d) = 2
    /\ Is14Digits(s_out.s) /\ s_out.s[1] = "0"

----------------------------------------------------------------------------
(* C7, C8, C9 *)

\* the columns of a table are the index columns present, in their fixed order,
\* then the other columns in strictly ascending order
WellOrdered(cols) ==
    LET n == Cardinality({c \in Range(cols) : IsIndexCol(c)})
    IN  /\ \A i \in 1..Len(cols) : IsIndexCol(cols[i]) <=> i <= n
        /\ \A i, j \in 1..n :
              i < j => \E a, b \in 1..Len(index_cols) :
                          a < b /\ index_cols[a] = cols[i] /\ index_cols[b] = cols[j]
        /\ \A i, j \in (n + 1)..Len(cols) :
              i < j => LexLess(Spell[cols[i]], Spell[cols[j]])

\* C7: in every non-empty table that DatasetCatalog.transform returns the
\* columns are the identity columns present, in fixed order, then all the other
\* columns in ascending lexicographic order, none dropped and none duplicated.
C7_ColumnOrder ==
    c_pc \in {"once", "twice"} =>
        \A name \in DOMAIN c_out :
            ~IsEmpty(c_out[name]) =>
                /\ WellOrdered(c_out[name].cols)
                /\ Range(c_out[name].cols) = Range(c_in[name].cols)
                /\ Len(c_out[name].cols) = Len(c_in[name].cols)

\* a table whose other columns arrived out of order was transformed
C7_Witness ==
    /\ c_pc = "once"
    /\ \E name \in DOMAIN c_in :
          /\ ~IsEmpty(c_in[name])
          /\ c_in[name].cols = <<"year", "siret", "caBilan">>
          /\ c_out[name].cols = <<"siret", "caBilan", "year">>

\* C8: DatasetCatalog.transform is idempotent: applied to its own result it
\* returns the same keys, columns, rows and row labels.
C8_Idempotent == c_pc = "twice" => c_out2 = c_out

\* the second application ran on a table the first one had changed
C8_Witness ==
    /\ c_pc = "twice"
    /\ \E name \in DOMAIN c_in :
          /\ c_out[name] # c_in[name]
          /\ c_out[name].cols # c_in[name].cols
          /\ c_out[name].index # c_in[name].index

\* C9: DatasetCatalog.transform changes only column order and row labels: same
\* keys, same number of rows in the same order, every row with the same value
\* in every column, and an empty table is returned as it is.
C9_FrameEffect ==
    c_pc \in {"once", "twice"} =>
        /\ DOMAIN c_out = DOMAIN c_in
        /\ \A name \in DOMAIN c_in :
              LET old == c_in[name]
                  new == c_out[name]
              IN  /\ Len(new.rows) = Len(old.rows)
                  /\ Range(new.cols) = Range(old.cols)
                  /\ \A i \in 1..Len(old.rows) :
                        /\ DOMAIN new.rows[i] = DOMAIN old.rows[i]
                        /\ \A c \in DOMAIN old.rows[i] : new.rows[i][c] = old.rows[i][c]
                  /\ IsEmpty(old) => new = old

\* a table of two rows with labels out of order was transformed beside an empty one
C9_Witness ==
    /\ c_pc = "once"
    /\ DOMAIN c_in = {"07_kpi_data", "09_articles"}
    /\ c_in["07_kpi_data"].index = <<2, 0>>
    /\ Len(c_in["07_kpi_data"].cols) = 2
    /\ c_out["07_kpi_data"].index = <<0, 1>>
    /\ IsEmpty(c_in["09_articles"])

----------------------------------------------------------------------------
(* C3 *)

KeyOf(r) == [company_name |-> r.company_name, siren |-> r.siren, siret |-> r.siret]

KeysOf(rows) == [i \in 1..Len(rows) |-> KeyOf(rows[i])]

\* the list a field holds: its elements, none when the field holds no list
ListOf(v) == IF v.t = "list" THEN v.l ELSE <<>>

\* the keys C3 gives the rows of one article row
C3_Keys(row) ==
    LET companies == ListOf(RowGet(row, "companies"))
        all_companies == ListOf(RowGet(row, "all_companies"))
        refs == IF companies # <<>> THEN companies ELSE all_companies
    IN  IF refs = <<>> THEN <<EmptyKey>>
        ELSE [i \in 1..Len(refs) |-> article_base_index(refs[i]).key]

\* C3: an article row with k > 0 companies is expanded into exactly k rows, one
\* per company of the list in order, keyed by it; with no companies the
\* all_companies list is used the same way; with neither, one row with the
\* empty key.
C3_ArticleFanOut ==
    (a_calls > 0 /\ ~a_raised) =>
        KeysOf(a_last) = Flatten([i \in 1..Len(a_chunk) |-> C3_Keys(a_chunk[i])])

----------------------------------------------------------------------------
(* C4 *)

\* the first list of the sequence that holds an entry
RECURSIVE FirstList(_)
FirstList(vs) ==
    IF vs = <<>> THEN <<>>
    ELSE IF ListOf(Head(vs)) # <<>> THEN ListOf(Head(vs)) ELSE FirstList(Tail(vs))

\* the keys C4 gives the rows of one signal row
C4_KeysOver(companies, sirets) ==
    IF companies = <<>> /\ sirets = <<>> THEN <<EmptyKey>>
    ELSE [i \in 1..Len(companies) |-> signal_company_key(companies[i]).key]
         \o [i \in 1..Len(sirets) |-> signal_siret_key(sirets[i]).key]

C4_Keys(row) ==
    C4_KeysOver(FirstList(<<RowGet(row, "companies"), RowGet(row, "companiesmain"),
                            RowGet(row, "allCompanies")>>),
                ListOf(RowGet(row, "sirets")))

\* C4: a signal row with c company references and s SIRET entries, c + s > 0,
\* is expanded into exactly c + s rows: the c company rows in list order, then
\* the s SIRET rows in list order.
C4_SignalUnion ==
    (p_calls > 0 /\ ~p_raised) =>
        KeysOf(p_last) = Flatten([i \in 1..Len(p_chunk) |-> C4_Keys(p_chunk[i])])

----------------------------------------------------------------------------
(* C2 *)

SiretOk(v) == v = StrV(EmptyStr) \/ (v.t = "str" /\ Is14Digits(v.s))

TableSiretsOk(df) ==
    "siret" \in Range(df.cols) => \A i \in 1..Len(df.rows) : SiretOk(df.rows[i].siret)

\* C2: in every row of every table the extractors hold or return, siret is
\* the empty string or a string of exactly 14 decimal digits.
C2_SiretShape ==
    /\ \A i \in 1..Len(p_list) : TableSiretsOk(p_list[i])
    /\ \A name \in DOMAIN p_result : TableSiretsOk(p_result[name])
    /\ \A i \in 1..Len(a_list) : TableSiretsOk(a_list[i])
    /\ \A name \in DOMAIN a_result : TableSiretsOk(a_result[name])

----------------------------------------------------------------------------
(* C5 *)

\* the embedded articles of a record: the mappings found where articles are
\* read from
C5_Articles(record) ==
    SelectSeq(Flatten([i \in 1..Len(article_sources(record)) |->
                          IF Truthy(article_sources(record)[i])
                          THEN AsList(article_sources(record)[i]) ELSE <<>>]),
              LAMBDA a : a.t = "dict" /\ Truthy(a))

\* the keys C5 gives the rows of one embedded article
C5_Keys(record, article) ==
    IF ListOf(Get(article.m, "companies", NoneV)) # <<>>
    THEN [i \in 1..Len(article.m.companies.l) |->
             article_base_index(article.m.companies.l[i]).key]
    ELSE <<article_base_index(company_info(record)).key>>

C5_RecordKeys(record, articles) ==
    Flatten([i \in 1..Len(articles) |-> C5_Keys(record, articles[i])])

\* C5: of the embedded articles of a batch, one with a non-empty companies
\* list of its own yields one row per company of that list and none keyed to
\* the enclosing record; one that lists no company yields one row keyed to
\* the enclosing record.
C5_EmbeddedArticles ==
    (k_calls > 0 /\ ~k_out.raised /\ k_out.failed = {}) =>
        KeysOf(k_out.articles_last)
            = Flatten([i \in 1..Len(k_chunk.rows) |->
                          C5_RecordKeys(k_chunk.rows[i], C5_Articles(k_chunk.rows[i]))])

----------------------------------------------------------------------------
(* C10 *)

kpi_locations == <<"kpi", "computed.kpi", "v1legacy.kpi">>
kpi_containers == <<"computed", "v1legacy">>

\* no mapping at any of the five places a KPI mapping is looked for
C10_NoMapping(row) ==
    /\ \A i \in 1..Len(kpi_locations) : RowGet(row, kpi_locations[i]).t # "dict"
    /\ \A i \in 1..Len(kpi_containers) : nested_kpi(RowGet(row, kpi_containers[i])).t # "dict"

\* the resolved mapping is one of years that each hold a mapping of metrics
C10_YearMapping(row) ==
    /\ resolved_kpi(row).t = "dict"
    /\ \A y \in DOMAIN resolved_kpi(row).m : resolved_kpi(row).m[y].t = "dict"

\* the keys of a mapping in the order in which it lists them
C10_Years(kpi_data) == SelectSeq(kpi_key_order, LAMBDA y : y \in DOMAIN kpi_data.m)

\* the row holds the metrics of the year, and the year as a string unless a
\* metric of that name has been merged over it
C10_RowOfYear(r, year, metrics) ==
    /\ \A f \in DOMAIN metrics.m : f \in DOMAIN r /\ r[f] = metrics.m[f]
    /\ "year" \in DOMAIN r
    /\ "year" \notin DOMAIN metrics.m => r["year"] = StrV(Spell[year])

C10_RowsOfYears(rows, kpi_data, years) ==
    /\ Len(rows) = Cardinality(DOMAIN kpi_data.m)
    /\ Len(rows) = Len(years)
    /\ \A j \in 1..Len(rows) : C10_RowOfYear(rows[j], years[j], kpi_data.m[years[j]])

C10_Record(row, rows) ==
    /\ C10_YearMapping(row) =>
          C10_RowsOfYears(rows, resolved_kpi(row), C10_Years(resolved_kpi(row)))
    /\ C10_NoMapping(row) => rows = <<>>

\* the last call got as far as the KPI rows
C10_Expanded == k_calls > 0 /\ ~base_index_raises(k_chunk)

----------------------------------------------------------------------------
(* C6 *)

C6_Names ==
    {"01_company_basic_info", "02_financial_data", "03_workforce_data",
     "04_company_structure", "05_classification_flags", "06_contact_metrics",
     "07_kpi_data", "08_signals", "09_articles"}

\* C6: the mapping make_extract_pipeline returns, and the one
\* FastDatasetExtractor.transform returns for an accepted file type, has
\* exactly the nine dataset names as keys, whichever files are supplied or
\* missing.
C6_NineKeys ==
    /\ (m_pc = "done" /\ ~m_out.raised) => DOMAIN m_out.datasets = C6_Names
    /\ (f_in # NoFile /\ ~f_out.raised) => DOMAIN f_out.datasets = C6_Names

----------------------------------------------------------------------------
(* C11 *)

\* the five candidates of a record, in the order of the claim
C11_Candidates(row) ==
    <<RowGet(row, "kpi"), RowGet(row, "computed.kpi"), nested_kpi(RowGet(row, "computed")),
      RowGet(row, "v1legacy.kpi"), nested_kpi(RowGet(row, "v1legacy"))>>

C11_NonEmpty(v) == v.t = "dict" /\ DOMAIN v.m # {}

\* the first candidate that holds a non-empty mapping, None when none does
C11_First(cands) ==
    IF \E i \in 1..Len(cands) : C11_NonEmpty(cands[i])
    THEN cands[CHOOSE i \in 1..Len(cands) :
                  /\ C11_NonEmpty(cands[i])
                  /\ \A j \in 1..(i - 1) : ~C11_NonEmpty(cands[j])]
    ELSE NoneV

\* C11: the KPI rows of every record of a batch are those of the first of
\* the five candidates kpi, computed.kpi, computed[kpi], v1legacy.kpi,
\* v1legacy[kpi] that holds a non-empty mapping; a candidate that is absent,
\* null, no mapping or an empty mapping is passed over.
C11_CandidateOrder ==
    C10_Expanded =>
        \A i \in 1..Len(k_chunk.rows) :
            k_out.kpi_by_record[i]
                = extract_kpi_from_record(k_chunk.rows[i],
                                          C11_First(C11_Candidates(k_chunk.rows[i])))

----------------------------------------------------------------------------
(* C12 *)

\* every row of the table holds the three identity columns, none of them null
C12_RowsKeyed(df) ==
    \A i \in 1..Len(df.rows) :
        \A c \in Range(index_cols) : c \in DOMAIN df.rows[i] /\ ~IsNa(df.rows[i][c])

\* C12: every row of every one of the nine tables get_datasets returns has
\* the columns company_name, siren and siret, each with a value that is not
\* null (the empty string at least).
C12_IdentityComplete ==
    \A name \in DOMAIN k_result : C12_RowsKeyed(k_result[name])

----------------------------------------------------------------------------
(* C13 *)

\* the type default of a column: "" for text, 0 for a count, false for a flag
C13_Default(kind) ==
    CASE kind = "bool" -> BoolV(FALSE)
      [] kind = "count" -> Zero
      [] OTHER -> StrV(EmptyStr)

\* the record does not carry the field: the batch has no such column, or the
\* column is there for other records only and holds NaN for this one
C13_Absent(df, row, field) == field \notin Range(df.cols) \/ row[field] = NanV

\* the table the last call appended to the buffer name
C13_LastTable(name) == k_frames[name][Len(k_frames[name])]

\* the i-th row of the table holds the value in the column
C13_Cell(df, i, col, v) == i <= Len(df.rows) /\ df.rows[i][col] = v

C13_RecordDefaults(df, i, name) ==
    /\ C13_Absent(df, df.rows[i], "siren") =>
          C13_Cell(C13_LastTable(name), i, "siren", StrV(EmptyStr))
    /\ \A j \in 1..Len(table_columns[name]) :
          C13_Absent(df, df.rows[i], table_columns[name][j].src) =>
              C13_Cell(C13_LastTable(name), i, table_columns[name][j].name,
                       C13_Default(table_columns[name][j].kind))

\* C13: in the tables 01-06 a field that a record does not carry has its
\* type default in the row of that record: "" for a text field and for
\* siren, 0 for nbContacts, false for a flag, whether no record of the batch
\* carries the field or only other records do.
C13_AbsentDefaults ==
    (k_calls > 0 /\ ~k_out.raised) =>
        \A name \in dataframe_names \ {kpi_name} :
            \A i \in 1..Len(k_chunk.rows) : C13_RecordDefaults(k_chunk, i, name)

----------------------------------------------------------------------------
(* C14 *)

\* C14: format_siret, VectorizedArticleExtractor.extract_chunk and
\* VectorizedProjectExtractor.extract_chunk return normally for every value
\* in the siret, company reference and sirets fields: no call raises.
C14_NeverRaises == ~s_out.raised /\ ~a_raised /\ ~p_raised

----------------------------------------------------------------------------
(* C15 *)

\* the rows the embedded articles and signals of one record expand into,
\* or raised
C15_ArticleRows(record) == article_extract_chunk(<<>>, record_articles(record).rows)
C15_SignalRows(record) == project_extract_chunk(<<>>, record_signals(record))

C15_Raises(record) ==
    \/ record_articles(record).raised
    \/ C15_ArticleRows(record).raised
    \/ C15_SignalRows(record).raised

\* every row of rows is among those emitted
C15_Emitted(rows, emitted) == \A j \in 1..Len(rows) : rows[j] \in Range(emitted)

\* a batch whose identity columns could be built, with a record whose
\* embedded articles or signals raise
C15_SubExtractionFails ==
    /\ k_calls > 0
    /\ ~base_index_raises(k_chunk)
    /\ \E i \in 1..Len(k_chunk.rows) : C15_Raises(k_chunk.rows[i])

\* C15: when the embedded articles or signals of one record of a batch
\* raise, the exception does not leave extract_chunk, the six company
\* tables hold a row for every record of the batch, and the article and
\* signal rows of the other records of the batch are emitted.
C15_OthersKept ==
    C15_SubExtractionFails =>
        /\ ~k_out.raised
        /\ \A name \in dataframe_names \ {kpi_name} :
              /\ k_frames[name] # <<>>
              /\ Len(C13_LastTable(name).rows) >= Len(k_chunk.rows)
        /\ \A i \in 1..Len(k_chunk.rows) :
              ~C15_Raises(k_chunk.rows[i]) =>
                  /\ C15_Emitted(C15_ArticleRows(k_chunk.rows[i]).last, k_out.articles_last)
                  /\ C15_Emitted(C15_SignalRows(k_chunk.rows[i]).last, k_out.signals_last)

----------------------------------------------------------------------------
(* C16 *)

\* a file of file_paths that exists and whose type is none of the three
C16_UnknownFile(f) == f.exists /\ f.file_type \notin {"company", "article", "project"}

\* C16: FastDatasetExtractor raises at construction exactly for a file type
\* other than company, article and project, and then builds no extractor and
\* returns no datasets; make_extract_pipeline raises, returning nothing, when
\* file_paths holds an existing file of such a type, and what it returns
\* otherwise holds datasets of the three types only.
C16_UnknownSelector ==
    /\ f_in # NoFile =>
          /\ f_new.raised <=> f_in.file_type \notin {"company", "article", "project"}
          /\ f_new.raised => f_new.extractor.kind = "none" /\ f_out.raised
          /\ ~f_new.raised => f_new.extractor.kind = f_in.file_type
    /\ m_pc = "done" =>
          /\ (\E i \in 1..Len(m_paths) : C16_UnknownFile(m_paths[i])) => m_out.raised
          /\ ~m_out.raised => DOMAIN m_out.datasets \subseteq C6_Names

\* the pipeline has been run on, and a FastDatasetExtractor built for, an
\* existing file of an unknown type: both raised
C16_Witness ==
    /\ f_in # NoFile
    /\ C16_UnknownFile(f_in)
    /\ f_new.raised
    /\ m_pc = "done"
    /\ m_out.raised
    /\ \E i \in 1..Len(m_paths) : m_paths[i].file_type = "company" /\ m_paths[i].exists

----------------------------------------------------------------------------
(* C17 *)

\* what a new extractor returns for the batches
C17_Fresh(chunks) == company_transform(NewCompanyExtractor, chunks)

\* C17: get_datasets drains the buffers: when it has returned, the buffers
\* of the extractor are empty, and what it returned holds the rows of the
\* batches handed in since the get_datasets before it, and no others.
C17_DrainedOnce ==
    [][CompanyGetDatasets =>
          /\ k_frames' = NoFrames
          /\ k_articles' = <<>>
          /\ k_signals' = <<>>
          /\ ~C17_Fresh(k_since).raised => k_result' = C17_Fresh(k_since).datasets]_vars

----------------------------------------------------------------------------
(* C18 *)

\* before is a prefix of after, which has at most one table more
C18_Appended(before, after) ==
    /\ Len(before) <= Len(after)
    /\ Len(after) <= Len(before) + 1
    /\ SubSeq(after, 1, Len(before)) = before

\* C18: an extract_chunk call on a company, article or project extractor
\* leaves what every buffer held in place, in order, and appends at most one
\* partial table to each.
C18_AppendOnly ==
    [][/\ k_calls' # k_calls =>
            /\ \A name \in dataframe_names : C18_Appended(k_frames[name], k_frames'[name])
            /\ C18_Appended(k_articles, k_articles')
            /\ C18_Appended(k_signals, k_signals')
       /\ a_calls' # a_calls => C18_Appended(a_list, a_list')
       /\ p_calls' # p_calls => C18_Appended(p_list, p_list')]_vars

\* two batches have been handed to a company extractor and every buffer but
\* that of the signals got a table from each
C18_Witness ==
    /\ k_calls = MaxBatches
    /\ \A name \in dataframe_names : Len(k_frames[name]) = MaxBatches
    /\ Len(k_articles) = MaxBatches
    /\ Len(k_signals) = 1

----------------------------------------------------------------------------
(* C19 *)

\* the rows of a dataset in what a transform returned
C19_RowsOf(r, name) ==
    IF ~r.raised /\ name \in DOMAIN r.datasets THEN r.datasets[name].rows ELSE <<>>

\* the rows one batch of a file produces for a dataset, in production order:
\* those an extractor of the file type returns for that batch alone
C19_BatchRows(f, j, name) ==
    C19_RowsOf(dataset_extractor_transform(f.file_type, <<f.chunks[j]>>), name)

\* the rows of the batches of a file, in arrival order
C19_FileRows(f, name) ==
    Flatten([j \in 1..Len(f.chunks) |-> C19_BatchRows(f, j, name)])

\* the rows of the files that exist, in the order of file_paths
C19_PipelineRows(existing, name) ==
    Flatten([i \in 1..Len(existing) |-> C19_FileRows(existing[i], name)])

\* the rows of the table are the expected rows, in order, on its columns
C19_SameRows(df, expected) ==
    df.rows = [k \in 1..Len(expected) |-> Fill(expected[k], df.cols)]

\* C19: in every table FastDatasetExtractor.transform returns, the rows of an
\* earlier batch precede those of a later one and the rows of a batch are in
\* production order; in every table make_extract_pipeline returns, the rows
\* of the files follow each other in the order of file_paths.
C19_ArrivalOrder ==
    /\ (f_in # NoFile /\ ~f_out.raised) =>
          \A name \in DOMAIN f_out.datasets :
              C19_SameRows(f_out.datasets[name], C19_FileRows(f_in, name))
    /\ (m_pc = "done" /\ ~m_out.raised) =>
          \A name \in DOMAIN m_out.datasets :
              C19_SameRows(m_out.datasets[name],
                           C19_PipelineRows(SelectSeq(m_paths, LAMBDA f : f.exists), name))

\* a company file of two batches and an article file of two batches have
\* been merged: 09_articles holds the rows of both, and the company tables
\* those of the two batches
C19_Witness ==
    /\ m_pc = "done"
    /\ ~m_out.raised
    /\ \E i, j \in 1..Len(m_paths) :
          /\ i < j
          /\ m_paths[i].exists /\ m_paths[j].exists
          /\ m_paths[i].file_type = "company" /\ m_paths[j].file_type = "article"
          /\ Len(m_paths[i].chunks) = 2 /\ Len(m_paths[j].chunks) = 2
          /\ C19_FileRows(m_paths[i], "09_articles") # <<>>
          /\ C19_FileRows(m_paths[j], "09_articles") # <<>>
          /\ C19_FileRows(m_paths[i], "09_articles") # C19_FileRows(m_paths[j], "09_articles")
    /\ Len(m_out.datasets["01_company_basic_info"].rows) > 2
    /\ f_in # NoFile /\ ~f_out.raised /\ Len(f_in.chunks) = 2

----------------------------------------------------------------------------
(* C20 *)

\* the batch with its rows labelled 0..n-1
C20_Relabelled(df) == Table(df.cols, RangeIndex(Len(df.rows)), df.rows)

\* the identity key of the i-th record of the batch
C20_RecordKey(df, i) == KeyOf(base_index(C20_Relabelled(df)).rows[i])

\* the table holds one row per record, the i-th with the key of the i-th
\* record
C20_RowPerRecord(table, df) ==
    /\ Len(table.rows) = Len(df.rows)
    /\ \A i \in 1..Len(df.rows) : KeyOf(table.rows[i]) = C20_RecordKey(df, i)

\* C20: for a batch of n records extract_chunk appends n rows to each of the
\* tables 01-06, the i-th row of each with the identity key of the i-th
\* record, whatever columns the batch lacks and whatever labels its rows
\* have.
C20_OneRowPerRecord ==
    (k_calls > 0 /\ ~base_index_raises(k_chunk)) =>
        \A name \in dataframe_names \ {kpi_name} :
            C20_RowPerRecord(C13_LastTable(name), k_chunk)

----------------------------------------------------------------------------
(* C21 *)

\* the name fields in the order of their priority
C21_NameFields == <<"socialName">> \o alt_cols

\* the record holds a non-empty value in the field
C21_Holds(row, field) ==
    /\ field \in DOMAIN row
    /\ ~IsNa(row[field])
    /\ row[field] # StrV(EmptyStr)

\* the first non-empty name of the record, "" when it has none
C21_NameOfRecord(row) ==
    IF \E i \in 1..Len(C21_NameFields) : C21_Holds(row, C21_NameFields[i])
    THEN row[C21_NameFields[CHOOSE i \in 1..Len(C21_NameFields) :
                /\ C21_Holds(row, C21_NameFields[i])
                /\ \A j \in 1..(i - 1) : ~C21_Holds(row, C21_NameFields[j])]]
    ELSE StrV(EmptyStr)

\* C21: in the table 01 of a batch whose rows are labelled 0..n-1 the
\* company_name of the i-th row is the socialName of the i-th record when it
\* is non-empty, otherwise the first non-empty of its label, name and
\* raison_sociale, otherwise "", whatever the other records of the batch
\* hold.
C21_NamePerRecord ==
    (k_calls > 0 /\ ~k_out.raised /\ k_chunk.index = RangeIndex(Len(k_chunk.rows))) =>
        \A i \in 1..Len(k_chunk.rows) :
            C13_Cell(C13_LastTable("01_company_basic_info"), i, "company_name",
                     C21_NameOfRecord(k_chunk.rows[i]))

----------------------------------------------------------------------------
(* C22 *)

\* the sizes of the lists the source row holds in the two fields, once for
\* every row the source row was expanded into
C22_Sizes(row, fan_out, first, second) ==
    [j \in 1..fan_out |->
        <<Len(ListOf(RowGet(row, first))), Len(ListOf(RowGet(row, second)))>>]

\* the two counts of the rows emitted
C22_Counts(rows, first, second) ==
    [k \in 1..Len(rows) |-> <<rows[k][first], rows[k][second]>>]

\* the rows of the last article batch report the sizes of all_companies and
\* companies
C22_ArticleCounts ==
    (a_calls > 0 /\ ~a_raised) =>
        C22_Counts(a_last, "all_companies_count", "companies_count")
            = Flatten([i \in 1..Len(a_chunk) |->
                          C22_Sizes(a_chunk[i], Len(article_expand(a_chunk[i]).rows),
                                    "all_companies", "companies")])

\* the rows of the last signal batch report the sizes of companies and sirets
C22_SignalCounts ==
    (p_calls > 0 /\ ~p_raised) =>
        C22_Counts(p_last, "companies_count", "sirets_count")
            = Flatten([i \in 1..Len(p_chunk) |->
                          C22_Sizes(p_chunk[i], Len(signal_expand(p_chunk[i]).rows),
                                    "companies", "sirets")])

\* C22: on every row the article extractor emits, all_companies_count and
\* companies_count are the lengths of the all_companies and companies lists
\* of the source row, and on every row the project extractor emits,
\* companies_count and sirets_count are the lengths of its companies and
\* sirets lists, for lists of 0, 1, 2 or more entries and whatever the number
\* of rows the source row was expanded into.
C22_OriginalSizes == C22_ArticleCounts /\ C22_SignalCounts

----------------------------------------------------------------------------
(* C23 *)

\* the string form of the id of a company reference, "" when it has none; a
\* reference that is no mapping is its own id
C23_IdOf(company) ==
    IF company.t = "dict"
    THEN IF "id" \in DOMAIN company.m /\ ~IsNa(company.m["id"])
         THEN PyStr(company.m["id"]) ELSE EmptyStr
    ELSE StrIfTruthy(company)

C23_CompanyKey(company) ==
    [company_name |-> StrV(EmptyStr), siren |-> StrV(C23_IdOf(company)),
     siret |-> StrV(EmptyStr)]

\* the normalized SIRET of an entry
C23_SiretOf(siret_info) ==
    format_siret(IF siret_info.t = "dict"
                 THEN Get(siret_info.m, "siret", StrV(EmptyStr))
                 ELSE siret_info).s

C23_SiretKey(siret) ==
    [company_name |-> StrV(EmptyStr),
     siren |-> StrV(IF Len(siret) >= 9 THEN SubSeq(siret, 1, 9) ELSE EmptyStr),
     siret |-> StrV(siret)]

\* the keys of the rows of one signal row, over the lists it is expanded over
C23_KeysOver(companies, sirets) ==
    IF companies = <<>> /\ sirets = <<>> THEN <<EmptyKey>>
    ELSE [i \in 1..Len(companies) |-> C23_CompanyKey(companies[i])]
         \o [i \in 1..Len(sirets) |-> C23_SiretKey(C23_SiretOf(sirets[i]))]

\* C23: a signal row produced from a company reference has company_name "",
\* siret "" and as siren the string form of the id of the reference ("" when
\* it has none); a row produced from a sirets entry has company_name "", as
\* siret format_siret of the entry (of its siret field when it is a mapping)
\* and as siren the first 9 characters of that siret when it has 9 or more,
\* otherwise "".
C23_SignalIdentity ==
    (p_calls > 0 /\ ~p_raised) =>
        KeysOf(p_last)
            = Flatten([i \in 1..Len(p_chunk) |->
                          C23_KeysOver(signal_companies(p_chunk[i]),
                                       signal_sirets(p_chunk[i]))])

----------------------------------------------------------------------------
(* C24 *)

\* the company references C24 resolves for a signal row: the first of the
\* three lists that holds an entry
C24_Companies(row) ==
    FirstList(<<RowGet(row, "companies"), RowGet(row, "companiesmain"),
                RowGet(row, "allCompanies")>>)

\* the keys of the rows of one signal row: those of the resolved company
\* references, then those of the sirets entries, the empty key when there is
\* neither
C24_Keys(row) == C4_KeysOver(C24_Companies(row), signal_sirets(row))

\* C24: the company references of a signal row are the first non-empty list
\* among companies, companiesmain and allCompanies, in this order; the sirets
\* list is read on its own and never replaces the company list; a row with no
\* company reference and no sirets entry is emitted once, with the key
\* ("", "", "").
C24_AssociationResolution ==
    (p_calls > 0 /\ ~p_raised) =>
        KeysOf(p_last) = Flatten([i \in 1..Len(p_chunk) |-> C24_Keys(p_chunk[i])])

----------------------------------------------------------------------------
(* C25 *)

\* C25: VectorizedCompanyExtractor.extract_chunk leaves the batch it is given
\* as it was: after the call every record holds the values it held before,
\* the embedded articles and the companies list of each article included.
C25_BatchUnchanged == k_calls > 0 => k_after = k_chunk

----------------------------------------------------------------------------
(* C26 *)

\* the key the i-th record of the last batch has in the tables 01-06
C26_TableKey(i) == KeyOf(C13_LastTable("01_company_basic_info").rows[i])

\* the j-th KPI row of the record carries the key and the j-th year of the
\* mapping
C26_RowKeyed(row, i, r, j) ==
    /\ KeyOf(r) = C26_TableKey(i)
    /\ r["year"] = StrV(Spell[kpi_years(resolved_kpi(row))[j]])

\* C26: every row of 07_kpi_data carries the identity key its record has in
\* the tables 01-06, and as year the year key of the KPI mapping as a string:
\* the metrics merged into the row replace none of company_name, siren, siret
\* and year, whatever keys they have and whichever name field gave the
\* company name.
C26_KpiIdentity ==
    (C10_Expanded /\ k_chunk.index = RangeIndex(Len(k_chunk.rows))) =>
        \A i \in 1..Len(k_chunk.rows) :
            \A j \in 1..Len(k_out.kpi_by_record[i]) :
                C26_RowKeyed(k_chunk.rows[i], i, k_out.kpi_by_record[i][j], j)

============================================================================
